---- MODULE Spec2Model ----
(***************************************************************************)
(* A model of the TPO / market-profile engine of this repository:          *)
(*   src/tpo_live_processor.py      TPOProcessor (price quantizer,         *)
(*                                  build_tpo, calculate_value_area)       *)
(*   src/auction_rotation_counter.py  score, extract_bracket_ranges,       *)
(*                                  calculate_rotation_factor              *)
(*   src/poc_movement.py            the three POC movement trackers        *)
(*   src/market_control_analyzer.py analyze_market_control                 *)
(*   src/daily_analysis.py          analyze_daily_metrics                  *)
(*   src/fetch_data.py              fetch_binance_klines                   *)
(*   src/web_app.py                 the handler of /api/analyze            *)
(*                                                                         *)
(* Prices are exact decimals in the code (Decimal(str(price))).  Here a    *)
(* price is an integer number of price units (the smallest decimal step    *)
(* of the inputs) and the tick size is a positive number of units, so      *)
(* p / tick is the exact rational p/tick_size: it is integral iff          *)
(* p % tick_size = 0 and its floor is p \div tick_size.  The 28-digit      *)
(* precision of Decimal is far beyond every price of the model.  Only the  *)
(* model of __init__ (SpecConfig) has tick sizes below zero.               *)
(***************************************************************************)
EXTENDS Integers, Sequences, FiniteSets, TLC

VARIABLES
    pc,          \* position of the driver: which function runs, and where
    tick_size,   \* TPOProcessor.tick_size (self.tick_dec), in price units
    price,       \* quantizer: the price argument
    low_out,     \* quantizer: <<low_to_tick_index(price)>> once called
    high_out,    \* quantizer: <<high_to_tick_index_exclusive(price)>> once called
    back_out,    \* quantizer: <<tick_index_to_price(low index)>> once called
    bracket_ranges_df,  \* calculate_rotation_factor: its argument (rows letter, low, high)
    j,                  \* calculate_rotation_factor: the loop index (0-based row of curr)
    col_names,          \* calculate_rotation_factor: column names built so far
    high_scores,        \* calculate_rotation_factor: the High row built so far
    low_scores,         \* calculate_rotation_factor: the Low row built so far
    net_scores,         \* calculate_rotation_factor: the Net row built so far
    rf_comparison,      \* calculate_rotation_factor: <<the returned table>> once returned
    session_tpos,       \* calculate_value_area: its argument (rows date, price, letter)
    va,                 \* calculate_value_area: its locals (price_counts, poc_idx, ...)
    va_ret,             \* calculate_value_area: <<the returned pair>> once returned
    df,                 \* build_tpo: its argument, the prepared candles in time order
    tpo_period,         \* TPOProcessor.tpo_period, e.g. [n |-> 30, unit |-> "m"]
    session_pos,        \* build_tpo: sessions of df.groupby('date') entered so far
    group_pos,          \* build_tpo: groups of the current session done so far
    letter_index,       \* build_tpo: letter_index
    low_idx,            \* build_tpo: low_idx of the last bracket
    high_idx,           \* build_tpo: high_idx of the last bracket (after the clamp)
    tpo_records,        \* build_tpo: tpo_records
    bracket_ranges_records,  \* build_tpo: bracket_ranges_records
    summary_records,    \* build_tpo: summary_records
    build_ret,          \* build_tpo: <<the returned triple>> once returned
    poc_mode,           \* poc_movement: the tracker that runs ("web", "multiday", "today")
    today_date,         \* track_poc_movement_today: today_date (yesterday is the day before)
    poc_pos,            \* poc_movement: iterations done of the loop the tracker is in
    daily_pocs,         \* track_poc_movement_web / _multiday: daily_pocs
    movements,          \* poc_movement: movements
    prev_poc,           \* track_poc_movement_today: <<prev_poc>> once yesterday's POC is known
    poc_ret,            \* poc_movement: <<the returned value>> once returned
    poc_report,         \* run_poc_analysis: <<the interpretation printed>> once printed
    tpo_df,             \* analyze_market_control: tpo_df of fetch_and_process_tpo
    profile_wide,       \* analyze_market_control: profile_wide
    date_pos,           \* analyze_market_control: columns of profile_wide done so far
    total_net_rotation, \* analyze_market_control: total_net_rotation
    dates_analyzed,     \* analyze_market_control: dates_analyzed
    results,            \* analyze_market_control: results, the rows of one combination
    asset,              \* TPOProcessor.__init__: the argument asset
    tick_arg,           \* TPOProcessor.__init__: the argument tick_size, None if not given
    cfg_out,            \* TPOProcessor: <<the last call made on the processor>>
    day_df,             \* analyze_daily_metrics: today_df, yesterday_df, dby_df
    day_tpo,            \* analyze_daily_metrics: the tpo_df built of each day
    day_rotation,       \* analyze_daily_metrics: the rotation metrics of each day
    day_volume,         \* analyze_daily_metrics: the total volume of each day
    day_va,             \* analyze_daily_metrics: the value area metrics of each day
    daily_result,       \* analyze_daily_metrics: <<results['timeframes'][interval]>>
    call_log,           \* the calls of build_tpo finished on the processor: argument, result
    current_start,      \* fetch_binance_klines: current_start
    all_data,           \* fetch_binance_klines: all_data, the close times of the candles
    fetch_ret,          \* fetch_binance_klines: <<the returned candles>> once returned
    analysis_results,   \* web_app: the module-level dict analysis_results
    web_req             \* web_app: the /api/analyze request each handler thread is at

quantVars == <<price, low_out, high_out, back_out>>
rotVars == <<bracket_ranges_df, j, col_names, high_scores, low_scores, net_scores,
             rf_comparison>>
vaVars == <<session_tpos, va, va_ret>>
buildVars == <<df, tpo_period, session_pos, group_pos, letter_index, low_idx, high_idx,
               tpo_records, bracket_ranges_records, summary_records, build_ret>>
pocVars == <<poc_mode, today_date, poc_pos, daily_pocs, movements, prev_poc, poc_ret,
             poc_report>>
controlVars == <<tpo_df, profile_wide, date_pos, total_net_rotation, dates_analyzed, results>>
\* the variables of the analyses built on the engine
configVars == <<asset, tick_arg, cfg_out>>
dailyVars == <<day_df, day_tpo, day_rotation, day_volume, day_va, daily_result>>
callVars == <<call_log>>
fetchVars == <<current_start, all_data, fetch_ret>>
webVars == <<analysis_results, web_req>>
serviceVars == <<callVars, fetchVars, webVars>>
analysisVars == <<pocVars, controlVars, configVars, dailyVars, serviceVars>>
\* the variables of the engine itself
engineVars == <<quantVars, rotVars, vaVars, buildVars>>
vars == <<pc, tick_size, engineVars, analysisVars>>

(***************************************************************************)
(* Bounds of the model.                                                    *)
(***************************************************************************)
MaxQuantPrice == 12
MaxTick == 4
MaxRanges == 3
MaxRotPrice == 13
MaxVALevels == 5
MaxVACount == 3
MaxCandles == 3
MaxDates == 2
MaxLetterBrackets == 53
MaxPocDays == 5
MaxDayCandles == 2
MaxCalls == 3
MaxFetchTime == 5
MaxPage == 2

QuantPrices == (0 - MaxQuantPrice)..MaxQuantPrice
QuantTicks == 1..MaxTick

(***************************************************************************)
(* The variables of a function that is not running.                        *)
(***************************************************************************)
IdleQuant ==
    /\ price = 0
    /\ low_out = <<>>
    /\ high_out = <<>>
    /\ back_out = <<>>

IdleRot ==
    /\ bracket_ranges_df = <<>>
    /\ j = 0
    /\ col_names = <<>>
    /\ high_scores = <<>>
    /\ low_scores = <<>>
    /\ net_scores = <<>>
    /\ rf_comparison = <<>>

\* No locals yet
NoLocals == [price_counts |-> <<>>]

IdleVA ==
    /\ session_tpos = <<>>
    /\ va = NoLocals
    /\ va_ret = <<>>

IdleBuild ==
    /\ df = <<>>
    /\ tpo_period = [n |-> 1, unit |-> "h"]
    /\ session_pos = 0
    /\ group_pos = 0
    /\ letter_index = 0
    /\ low_idx = 0
    /\ high_idx = 0
    /\ tpo_records = <<>>
    /\ bracket_ranges_records = <<>>
    /\ summary_records = <<>>
    /\ build_ret = <<>>

IdlePoc ==
    /\ poc_mode = ""
    /\ today_date = 0
    /\ poc_pos = 0
    /\ daily_pocs = <<>>
    /\ movements = <<>>
    /\ prev_poc = <<>>
    /\ poc_ret = <<>>
    /\ poc_report = <<>>

\* no profile yet
NoProfile == [index |-> {}, columns |-> <<>>, cell |-> <<>>]

IdleControl ==
    /\ tpo_df = <<>>
    /\ profile_wide = NoProfile
    /\ date_pos = 0
    /\ total_net_rotation = 0
    /\ dates_analyzed = 0
    /\ results = <<>>

\* no processor is configured through the arguments of the model
IdleConfig ==
    /\ asset = ""
    /\ tick_arg = <<>>
    /\ cfg_out = <<>>

IdleDaily ==
    /\ day_df = <<>>
    /\ day_tpo = <<>>
    /\ day_rotation = <<>>
    /\ day_volume = <<>>
    /\ day_va = <<>>
    /\ daily_result = <<>>

IdleCall == call_log = <<>>

IdleFetch ==
    /\ current_start = 0
    /\ all_data = <<>>
    /\ fetch_ret = <<>>

IdleWeb ==
    /\ analysis_results = <<>>
    /\ web_req = <<>>

IdleService == IdleCall /\ IdleFetch /\ IdleWeb

IdleAnalysis == IdlePoc /\ IdleControl /\ IdleConfig /\ IdleDaily /\ IdleService

(***************************************************************************)
(* Decimal helpers.  A quotient q = p / t is kept as the pair (p, t).      *)
(***************************************************************************)
\* q.to_integral_value(rounding=ROUND_FLOOR)
FloorQuot(p, t) == IF t > 0 THEN p \div t ELSE (0 - p) \div (0 - t)

\* q == q.to_integral_value(): the default rounding yields q itself exactly
\* when q is an integer
IsIntegral(p, t) == p % t = 0

\* int(q): truncation toward zero
IntOf(p, t) == IF p >= 0 THEN p \div t ELSE 0 - ((0 - p) \div t)

(***************************************************************************)
(* The price quantizer.                                                    *)
(***************************************************************************)
\* rounding up instead of down
MutLowCeiling(p, tick) == 0 - FloorQuot(0 - p, tick)
low_to_tick_index(p, tick) == FloorQuot(p, tick)

\* the boundary tick not excluded
MutHighInclusive(p, tick) == FloorQuot(p, tick)
high_to_tick_index_exclusive(p, tick) ==
    IF IsIntegral(p, tick)
    THEN IntOf(p, tick) - 1
    ELSE FloorQuot(p, tick)

tick_index_to_price(idx, tick) == idx * tick

(***************************************************************************)
(* The 52 bracket letters: string.ascii_uppercase + string.ascii_lowercase *)
(***************************************************************************)
letters ==
    << "A", "B", "C", "D", "E", "F", "G", "H", "I", "J", "K", "L", "M",
       "N", "O", "P", "Q", "R", "S", "T", "U", "V", "W", "X", "Y", "Z",
       "a", "b", "c", "d", "e", "f", "g", "h", "i", "j", "k", "l", "m",
       "n", "o", "p", "q", "r", "s", "t", "u", "v", "w", "x", "y", "z" >>

(***************************************************************************)
(* The rotation factor calculator.                                         *)
(***************************************************************************)
RECURSIVE SumSeq(_)
\* Python's sum() of a list
SumSeq(s) == IF s = <<>> THEN 0 ELSE s[1] + SumSeq(Tail(s))

MutScoreReversed(curr, prev) ==
    IF curr > prev THEN 0 - 1 ELSE IF curr < prev THEN 1 ELSE 0
score(curr, prev) ==
    IF curr > prev THEN 1 ELSE IF curr < prev THEN 0 - 1 ELSE 0

MutNetDifference(h, l) == h - l
\* n = h + l
net_of(h, l) == h + l

\* pd.DataFrame(): the empty table
EmptyTable == [columns |-> <<>>, High |-> <<>>, Low |-> <<>>, Net |-> <<>>]

\* The arguments of the model: up to MaxRanges rows, lettered in order, each a
\* quantized range low <= high as build_tpo and extract_bracket_ranges give.
RotPrices == 9..MaxRotPrice
RotPairs == { lh \in RotPrices \X RotPrices : lh[1] <= lh[2] }
RangeRows(n) ==
    { [i \in 1..n |-> [letter |-> letters[i], low |-> f[i][1], high |-> f[i][2]]] :
        f \in [1..n -> RotPairs] }

InitRot ==
    /\ pc = "rot_enter"
    /\ IdleAnalysis
    /\ tick_size = 1
    /\ IdleQuant
    /\ IdleVA
    /\ IdleBuild
    /\ \E n \in 0..MaxRanges : bracket_ranges_df \in RangeRows(n)
    /\ j = 0
    /\ col_names = <<>>
    /\ high_scores = <<>>
    /\ low_scores = <<>>
    /\ net_scores = <<>>
    /\ rf_comparison = <<>>

\* lines 94-100: fewer than 2 rows return the empty table
RotEnter ==
    /\ pc = "rot_enter"
    /\ IF Len(bracket_ranges_df) < 2
       THEN /\ rf_comparison' = <<EmptyTable>>
            /\ pc' = "rot_done"
            /\ j' = j
       ELSE /\ rf_comparison' = rf_comparison
            /\ pc' = "rot_loop"
            /\ j' = 1
    /\ UNCHANGED <<analysisVars, tick_size, quantVars, vaVars, buildVars, bracket_ranges_df, col_names,
                   high_scores, low_scores, net_scores>>

\* lines 102-114: one iteration, rows j-1 and j (0-based) are rows j and j+1 here
RotPair ==
    /\ pc = "rot_loop"
    /\ j < Len(bracket_ranges_df)
    /\ LET prev == bracket_ranges_df[j]
           curr == bracket_ranges_df[j + 1]
           h == score(curr.high, prev.high)
           l == score(curr.low, prev.low)
           n == net_of(h, l)
       IN  /\ col_names' = Append(col_names, <<curr.letter, "vs", prev.letter>>)
           /\ high_scores' = Append(high_scores, h)
           /\ low_scores' = Append(low_scores, l)
           /\ net_scores' = Append(net_scores, n)
    /\ j' = j + 1
    /\ UNCHANGED <<analysisVars, pc, tick_size, quantVars, vaVars, buildVars, bracket_ranges_df,
                   rf_comparison>>

\* lines 116-128: the Sum column and the returned table
RotSum ==
    /\ pc = "rot_loop"
    /\ j >= Len(bracket_ranges_df)
    /\ col_names' = Append(col_names, <<"Sum">>)
    /\ high_scores' = Append(high_scores, SumSeq(high_scores))
    /\ low_scores' = Append(low_scores, SumSeq(low_scores))
    /\ net_scores' = Append(net_scores, SumSeq(net_scores))
    /\ rf_comparison' = <<[columns |-> col_names', High |-> high_scores',
                           Low |-> low_scores', Net |-> net_scores']>>
    /\ pc' = "rot_done"
    /\ UNCHANGED <<analysisVars, tick_size, quantVars, vaVars, buildVars, bracket_ranges_df, j>>

NextRot == RotEnter \/ RotPair \/ RotSum

SpecRot == InitRot /\ [][NextRot]_vars

(***************************************************************************)
(* The value area calculator.  Optional values: None is <<>>, a value v is *)
(* <<v>>.  Indexes into price_counts are 0-based as in the code; row i of  *)
(* the code is element i + 1 of the sequence.                              *)
(***************************************************************************)
None == <<>>
Some(v) == <<v>>

RECURSIVE SortedSeq(_)
\* the elements of a finite set of integers in ascending order
SortedSeq(S) ==
    IF S = {} THEN <<>>
    ELSE LET m == CHOOSE x \in S : \A y \in S : x <= y
         IN  <<m>> \o SortedSeq(S \ {m})

\* pd.DataFrame(rows).groupby('price').size(), which is sorted by price:
\* one row per distinct price with the number of rows at that price
price_size(rows) ==
    LET prices == SortedSeq({ rows[i].price : i \in DOMAIN rows })
    IN  [k \in DOMAIN prices |->
            [price |-> prices[k],
             count |-> Cardinality({ i \in DOMAIN rows : rows[i].price = prices[k] })]]

\* a later row replaces the best one also when its count is equal
MutBetterOrEqual(c, best) == c >= best
\* idxmax keeps the first row of the maximal count
better(c, best) == c > best

RECURSIVE ArgMaxFrom(_, _, _)
ArgMaxFrom(counts, i, best) ==
    IF i >= Len(counts) THEN best
    ELSE ArgMaxFrom(counts, i + 1,
                    IF better(counts[i + 1].count, counts[best + 1].count)
                    THEN i ELSE best)

\* price_counts.index.get_loc(price_counts.idxmax()): 0-based row of the maximum
idxmax_loc(counts) == ArgMaxFrom(counts, 1, 0)

RECURSIVE SumCounts(_)
\* price_counts.sum()
SumCounts(counts) ==
    IF counts = <<>> THEN 0 ELSE counts[1].count + SumCounts(Tail(counts))

\* int(total_tpos * 0.70); the float product truncates to floor(7 * total / 10)
\* for every total below 90, the first total where the two differ
target_of(total) == (7 * total) \div 10

\* lines 277-293: the locals when the loop is reached
VAEnterState(tpos) ==
    LET price_counts == price_size(tpos)
        poc_idx == idxmax_loc(price_counts)
        total_tpos == SumCounts(price_counts)
    IN  [price_counts |-> price_counts,
         poc_idx |-> poc_idx,
         total_tpos |-> total_tpos,
         target_tpos |-> target_of(total_tpos),
         va_tpos |-> price_counts[poc_idx + 1].count,
         upper_idx |-> poc_idx,
         lower_idx |-> poc_idx]

can_go_up(st) == st.upper_idx < Len(st.price_counts) - 1
can_go_down(st) == st.lower_idx > 0

\* line 295 and lines 300-301: the loop goes on
VAContinues(st) ==
    /\ st.va_tpos < st.target_tpos
    /\ ~(~can_go_up(st) /\ ~can_go_down(st))

\* on equal counts the lower side is taken
MutPreferStrict(up_count, down_count) == up_count > down_count
\* line 311
prefer_up(up_count, down_count) == up_count >= down_count

\* the level above is taken without its count
MutGoUpUncounted(st) == [st EXCEPT !.upper_idx = st.upper_idx + 1]
go_up(st) ==
    [st EXCEPT !.upper_idx = st.upper_idx + 1,
               !.va_tpos = st.va_tpos + st.price_counts[st.upper_idx + 2].count]
\* the level below is counted but the lower boundary stays
MutGoDownStays(st) ==
    [st EXCEPT !.va_tpos = st.va_tpos + st.price_counts[st.lower_idx].count]
go_down(st) ==
    [st EXCEPT !.lower_idx = st.lower_idx - 1,
               !.va_tpos = st.va_tpos + st.price_counts[st.lower_idx].count]

\* lines 303-316: one iteration that does not break
VAExpandState(st) ==
    IF can_go_up(st) /\ ~can_go_down(st) THEN go_up(st)
    ELSE IF can_go_down(st) /\ ~can_go_up(st) THEN go_down(st)
    ELSE IF prefer_up(st.price_counts[st.upper_idx + 2].count,
                      st.price_counts[st.lower_idx].count)
         THEN go_up(st)
         ELSE go_down(st)

\* line 318
VAResult(st) ==
    [high |-> Some(st.price_counts[st.upper_idx + 1].price),
     low |-> Some(st.price_counts[st.lower_idx + 1].price)]

NoneResult == [high |-> None, low |-> None]

RECURSIVE VARun(_)
VARun(st) == IF VAContinues(st) THEN VARun(VAExpandState(st)) ELSE st

\* the whole call, as build_tpo uses it
calculate_value_area(tpos) ==
    IF tpos = <<>> THEN NoneResult ELSE VAResult(VARun(VAEnterState(tpos)))

\* The arguments of the model: the blocks of one session over up to
\* MaxVALevels tick levels from price 100 on, up to MaxVACount blocks a level
\* (a level may have none), at tick size 1.
VALevels == 0..(MaxVALevels - 1)
RECURSIVE BlocksOf(_, _)
BlocksOf(h, lv) ==
    IF lv = MaxVALevels THEN <<>>
    ELSE [i \in 1..h[lv] |-> [date |-> 1, price |-> 100 + lv, letter |-> letters[i]]]
         \o BlocksOf(h, lv + 1)

InitVA ==
    /\ pc = "va_enter"
    /\ IdleAnalysis
    /\ tick_size = 1
    /\ IdleQuant
    /\ IdleRot
    /\ IdleBuild
    /\ \E h \in [VALevels -> 0..MaxVACount] : session_tpos = BlocksOf(h, 0)
    /\ va = NoLocals
    /\ va_ret = <<>>

\* lines 274-293
VAEnter ==
    /\ pc = "va_enter"
    /\ IF session_tpos = <<>>
       THEN /\ va_ret' = <<NoneResult>>
            /\ va' = va
            /\ pc' = "va_done"
       ELSE /\ va' = VAEnterState(session_tpos)
            /\ va_ret' = va_ret
            /\ pc' = "va_loop"
    /\ UNCHANGED <<analysisVars, tick_size, quantVars, rotVars, buildVars, session_tpos>>

\* lines 295-316: one iteration
VAExpand ==
    /\ pc = "va_loop"
    /\ VAContinues(va)
    /\ va' = VAExpandState(va)
    /\ UNCHANGED <<analysisVars, pc, tick_size, quantVars, rotVars, buildVars, session_tpos, va_ret>>

\* line 295 false or line 301, then line 318
VAReturn ==
    /\ pc = "va_loop"
    /\ ~VAContinues(va)
    /\ va_ret' = <<VAResult(va)>>
    /\ pc' = "va_done"
    /\ UNCHANGED <<analysisVars, tick_size, quantVars, rotVars, buildVars, session_tpos, va>>

NextVA == VAEnter \/ VAExpand \/ VAReturn

SpecVA == InitVA /\ [][NextVA]_vars

\* once in the loop the call runs on: nothing but the loop itself can hold up
\* its return
SpecVALive == SpecVA /\ WF_vars(VAExpand \/ VAReturn)

(***************************************************************************)
(* build_tpo.  A candle is [date, minute, open, high, low, close]: date is *)
(* the calendar day of its timestamp, minute its minute of the day.        *)
(***************************************************************************)
\* _parse_period_to_minutes
parse_period_to_minutes(period) ==
    IF period.unit = "m" THEN period.n
    ELSE IF period.unit = "h" THEN period.n * 60
    ELSE IF period.unit = "d" THEN period.n * 1440
    ELSE 60

\* _assign_tpo_groups, for one row: (minute / tpo_minutes).astype(int)
assign_tpo_group(minute, tpo_minutes) == minute \div tpo_minutes

\* the keys of df.groupby('date'), ascending
session_dates(d) == SortedSeq({ d[i].date : i \in DOMAIN d })

\* the rows of one date, df order kept
session_df_of(d, date) == SelectSeq(d, LAMBDA c : c.date = date)

\* the keys of session_df.groupby('tpo_group'), ascending
tpo_groups(sdf, tpo_minutes) ==
    SortedSeq({ assign_tpo_group(sdf[i].minute, tpo_minutes) : i \in DOMAIN sdf })

\* the rows of one group, session order kept
group_df_of(sdf, g, tpo_minutes) ==
    SelectSeq(sdf, LAMBDA c : assign_tpo_group(c.minute, tpo_minutes) = g)

\* column minimum and maximum over the rows of a non-empty frame
min_low(rows) == CHOOSE x \in { rows[i].low : i \in DOMAIN rows } :
                    \A i \in DOMAIN rows : x <= rows[i].low
max_high(rows) == CHOOSE x \in { rows[i].high : i \in DOMAIN rows } :
                    \A i \in DOMAIN rows : x >= rows[i].high

\* the alphabet is left at its last letter instead of wrapping
MutLetterNoWrap(i) == letters[IF i < Len(letters) THEN i + 1 ELSE Len(letters)]
\* line 180: self.letters[letter_index % len(self.letters)]
letter_for(i) == letters[(i % Len(letters)) + 1]

\* the degenerate range is left as computed
MutNoClamp(lo, hi) == hi
\* lines 190-191
clamp_high(lo, hi) == IF hi < lo THEN lo ELSE hi

\* the last tick of the range is left out
MutRangeExclusive(lo, hi) == [k \in 1..(hi - lo) |-> lo + k - 1]
\* line 210: range(low_idx, high_idx + 1), as a sequence
tick_range(lo, hi) == [k \in 1..(hi + 1 - lo) |-> lo + k - 1]

\* lines 220 and 231: [r for r in tpo_records if r['date'] == session_date]
session_tpos_of(records, date) == SelectSeq(records, LAMBDA r : r.date = date)

\* the opening price is taken for the POC
MutPocIsOpen(records, date, session_open) == session_open
\* lines 219-227: the POC of the session summary
summary_poc(records, date, session_open) ==
    IF records # <<>>
    THEN LET tpos == session_tpos_of(records, date)
         IN  IF tpos # <<>>
             THEN LET tpo_counts == price_size(tpos)
                  IN  IF Len(tpo_counts) > 0
                      THEN tpo_counts[idxmax_loc(tpo_counts) + 1].price
                      ELSE session_open
             ELSE session_open
    ELSE session_open

\* the session and the group that the loops are at
cur_date == session_dates(df)[session_pos]
cur_session_df == session_df_of(df, cur_date)
tpo_minutes == parse_period_to_minutes(tpo_period)
cur_groups == tpo_groups(cur_session_df, tpo_minutes)

\* the blocks of the call before are kept
MutEnterKeepsRecords ==
    /\ pc = "build_enter"
    /\ tpo_records' = tpo_records
    /\ bracket_ranges_records' = <<>>
    /\ summary_records' = <<>>
    /\ session_pos' = 0
    /\ pc' = "session_loop"
    /\ UNCHANGED <<analysisVars, tick_size, quantVars, rotVars, vaVars, df, tpo_period,
                   group_pos, letter_index, low_idx, high_idx, build_ret>>
\* lines 155-165: the three lists are new, the loop over the sessions starts
BuildEnter ==
    /\ pc = "build_enter"
    /\ tpo_records' = <<>>
    /\ bracket_ranges_records' = <<>>
    /\ summary_records' = <<>>
    /\ session_pos' = 0
    /\ pc' = "session_loop"
    /\ UNCHANGED <<analysisVars, tick_size, quantVars, rotVars, vaVars, df, tpo_period,
                   group_pos, letter_index, low_idx, high_idx, build_ret>>

\* lines 165-178: the next session is entered
SessionBegin ==
    /\ pc = "session_loop"
    /\ session_pos < Len(session_dates(df))
    /\ session_pos' = session_pos + 1
    /\ group_pos' = 0
    /\ letter_index' = 0
    /\ pc' = "group_loop"
    /\ UNCHANGED <<analysisVars, tick_size, quantVars, rotVars, vaVars, df, tpo_period, low_idx,
                   high_idx, tpo_records, bracket_ranges_records, summary_records,
                   build_ret>>

\* lines 179-216: one bracket of the session
Bracket ==
    /\ pc = "group_loop"
    /\ group_pos < Len(cur_groups)
    /\ LET group_df == group_df_of(cur_session_df, cur_groups[group_pos + 1], tpo_minutes)
           letter == letter_for(letter_index)
           group_low == min_low(group_df)
           group_high == max_high(group_df)
           lo == low_to_tick_index(group_low, tick_size)
           hi == clamp_high(lo, high_to_tick_index_exclusive(group_high, tick_size))
           ticks == tick_range(lo, hi)
       IN  /\ letter_index' = letter_index + 1
           /\ low_idx' = lo
           /\ high_idx' = hi
           /\ bracket_ranges_records' = Append(bracket_ranges_records,
                 [date |-> cur_date,
                  letter |-> letter,
                  bracket_index |-> letter_index' - 1,
                  timestamp |-> group_df[1].minute,
                  low |-> tick_index_to_price(lo, tick_size),
                  high |-> tick_index_to_price(hi, tick_size),
                  candle_open |-> group_df[1].open,
                  candle_close |-> group_df[Len(group_df)].close])
           /\ tpo_records' = tpo_records \o
                 [k \in DOMAIN ticks |->
                    [date |-> cur_date,
                     price |-> tick_index_to_price(ticks[k], tick_size),
                     letter |-> letter]]
    /\ group_pos' = group_pos + 1
    /\ UNCHANGED <<analysisVars, pc, tick_size, quantVars, rotVars, vaVars, df, tpo_period, session_pos,
                   summary_records, build_ret>>

\* lines 218-246: the summary row of the session
Summary ==
    /\ pc = "group_loop"
    /\ group_pos >= Len(cur_groups)
    /\ LET sdf == cur_session_df
           session_high == max_high(sdf)
           session_low == min_low(sdf)
           session_open == sdf[1].open
           session_close == sdf[Len(sdf)].close
           poc == summary_poc(tpo_records, cur_date, session_open)
           value_area == calculate_value_area(session_tpos_of(tpo_records, cur_date))
       IN  summary_records' = Append(summary_records,
                 [date |-> cur_date,
                  session_high |-> session_high,
                  session_low |-> session_low,
                  session_open |-> session_open,
                  session_close |-> session_close,
                  poc |-> poc,
                  value_area_high |-> value_area.high,
                  value_area_low |-> value_area.low,
                  range |-> session_high - session_low,
                  num_periods |-> Len(sdf)])
    /\ pc' = "session_loop"
    /\ UNCHANGED <<analysisVars, tick_size, quantVars, rotVars, vaVars, df, tpo_period, session_pos,
                   group_pos, letter_index, low_idx, high_idx, tpo_records,
                   bracket_ranges_records, build_ret>>

\* lines 248-257
BuildReturn ==
    /\ pc = "session_loop"
    /\ session_pos >= Len(session_dates(df))
    /\ build_ret' = <<[tpo_df |-> tpo_records,
                       bracket_ranges_df |-> bracket_ranges_records,
                       summary_df |-> summary_records]>>
    /\ pc' = "build_done"
    /\ UNCHANGED <<analysisVars, tick_size, quantVars, rotVars, vaVars, df, tpo_period, session_pos,
                   group_pos, letter_index, low_idx, high_idx, tpo_records,
                   bracket_ranges_records, summary_records>>

Next == BuildEnter \/ SessionBegin \/ Bracket \/ Summary \/ BuildReturn

(***************************************************************************)
(* The arguments of build_tpo in the model: candles that each fill one     *)
(* bracket, the brackets of a day following each other from midnight.      *)
(* shape[s] is the number of candles of day s, lh[k] = <<low, high>> of    *)
(* the k-th candle, which opens at its low and closes at its high.         *)
(***************************************************************************)
RECURSIVE SumShape(_)
SumShape(shape) == IF shape = <<>> THEN 0 ELSE shape[1] + SumShape(Tail(shape))

RECURSIVE DayCandles(_, _, _, _, _)
DayCandles(date, n, lh, offset, step) ==
    IF n = 0 THEN <<>>
    ELSE DayCandles(date, n - 1, lh, offset, step) \o
         << [date |-> date, minute |-> (n - 1) * step,
             open |-> lh[offset + n][1], high |-> lh[offset + n][2],
             low |-> lh[offset + n][1], close |-> lh[offset + n][2]] >>

RECURSIVE MakeDf(_, _, _, _, _)
MakeDf(shape, s, lh, offset, step) ==
    IF s > Len(shape) THEN <<>>
    ELSE DayCandles(s, shape[s], lh, offset, step)
         \o MakeDf(shape, s + 1, lh, offset + shape[s], step)

\* 100 and 102 lie on a tick boundary at both tick sizes, 103 lies on one at
\* tick size 1 and inside a tick at tick size 2
Prices == {100, 102, 103}
PricePairs == { lh \in Prices \X Prices : lh[1] <= lh[2] }
BuildTicks == {1, 2}

\* day lengths: up to MaxDates days holding up to MaxCandles candles together
Shapes ==
    { sh \in UNION { [1..d -> 1..MaxCandles] : d \in 1..MaxDates } :
        SumShape(sh) <= MaxCandles }

InitLocals ==
    /\ session_pos = 0
    /\ group_pos = 0
    /\ letter_index = 0
    /\ low_idx = 0
    /\ high_idx = 0
    /\ tpo_records = <<>>
    /\ bracket_ranges_records = <<>>
    /\ summary_records = <<>>
    /\ build_ret = <<>>

Init ==
    /\ pc = "build_enter"
    /\ IdleAnalysis
    /\ tick_size \in BuildTicks
    /\ tpo_period = [n |-> 30, unit |-> "m"]
    /\ \E sh \in Shapes : \E lh \in [1..SumShape(sh) -> PricePairs] :
          df = MakeDf(sh, 1, lh, 0, 30)
    /\ InitLocals
    /\ IdleQuant
    /\ IdleRot
    /\ IdleVA

Spec == Init /\ [][Next]_vars

(***************************************************************************)
(* Candles with gaps: build_tpo on the candles fetched for the days        *)
(* SessionDates, of which any time window and any whole day may lack its   *)
(* candles.  With brackets of 30 minutes the candles of 00:00 and 00:15    *)
(* share a bracket, and the one of 01:00 follows the empty window 00:30.   *)
(***************************************************************************)
SessionDates == 1..MaxDates
SparseMinutes == {0, 15, 60}
SparseSlots == SessionDates \X SparseMinutes
SparsePairs == { <<100, 100>>, <<100, 102>> }

\* the candles of the slots, sorted by date and time as fetch_binance_klines
\* returns them (fetch_data.py line 112)
RECURSIVE SlotCandles(_, _)
SlotCandles(slots, lh) ==
    IF slots = {} THEN <<>>
    ELSE LET s == CHOOSE s \in slots :
                    \A t \in slots : s[1] < t[1] \/ (s[1] = t[1] /\ s[2] <= t[2])
         IN  << [date |-> s[1], minute |-> s[2],
                 open |-> lh[s][1], high |-> lh[s][2],
                 low |-> lh[s][1], close |-> lh[s][2]] >>
             \o SlotCandles(slots \ {s}, lh)

InitSparse ==
    /\ pc = "build_enter"
    /\ IdleAnalysis
    /\ tick_size = 1
    /\ tpo_period = [n |-> 30, unit |-> "m"]
    /\ \E slots \in { S \in SUBSET SparseSlots : Cardinality(S) <= MaxCandles } :
          \E lh \in [slots -> SparsePairs] : df = SlotCandles(slots, lh)
    /\ InitLocals
    /\ IdleQuant
    /\ IdleRot
    /\ IdleVA

SpecSparse == InitSparse /\ [][Next]_vars

(***************************************************************************)
(* build_tpo called again and again on one processor.  The variables of    *)
(* the call before keep their values until the code assigns them; the      *)
(* caller keeps the argument and the result of every finished call.        *)
(***************************************************************************)
RepeatSlots == { {}, { <<1, 0>> }, { <<1, 0>>, <<1, 60>> }, { <<1, 0>>, <<2, 0>> } }
RepeatPair(s) ==
    IF s[2] = 60 THEN <<100, 102>> ELSE IF s[1] = 2 THEN <<102, 103>> ELSE <<100, 100>>
RepeatDfs == { SlotCandles(slots, [s \in slots |-> RepeatPair(s)]) : slots \in RepeatSlots }

\* the caller takes the result and calls build_tpo with other candles
BuildAgain ==
    /\ pc = "build_done"
    /\ Len(call_log) + 1 < MaxCalls
    /\ call_log' = Append(call_log, [df |-> df, ret |-> build_ret[1]])
    /\ df' \in RepeatDfs
    /\ pc' = "build_enter"
    /\ UNCHANGED <<tick_size, quantVars, rotVars, vaVars, pocVars, controlVars, configVars,
                   dailyVars, fetchVars, webVars, tpo_period, session_pos, group_pos,
                   letter_index, low_idx, high_idx, tpo_records, bracket_ranges_records,
                   summary_records, build_ret>>

NextRepeat == BuildEnter \/ SessionBegin \/ Bracket \/ Summary \/ BuildReturn \/ BuildAgain

InitRepeat ==
    /\ pc = "build_enter"
    /\ IdleAnalysis
    /\ tick_size = 1
    /\ tpo_period = [n |-> 30, unit |-> "m"]
    /\ df \in RepeatDfs
    /\ InitLocals
    /\ IdleQuant
    /\ IdleRot
    /\ IdleVA

SpecRepeat == InitRepeat /\ [][NextRepeat]_vars

\* long sessions: one day of up to MaxLetterBrackets 15-minute brackets, alone
\* or followed by a day of two, every candle at one price
LetterShapes ==
    { <<n>> : n \in 1..MaxLetterBrackets } \cup { <<n, 2>> : n \in 1..MaxLetterBrackets }

InitLetters ==
    /\ pc = "build_enter"
    /\ IdleAnalysis
    /\ tick_size = 2
    /\ tpo_period = [n |-> 15, unit |-> "m"]
    /\ \E sh \in LetterShapes :
          df = MakeDf(sh, 1, [k \in 1..SumShape(sh) |-> <<101, 101>>], 0, 15)
    /\ InitLocals
    /\ IdleQuant
    /\ IdleRot
    /\ IdleVA

SpecLetters == InitLetters /\ [][Next]_vars

(***************************************************************************)
(* build_tpo and prepare_data as functions, for the callers that use the   *)
(* returned tables: the same code as the actions above, run to the end.    *)
(***************************************************************************)
\* the time of a candle on one axis: its date and its minute of the day
timestamp_of(c) == c.date * 1440 + c.minute

RECURSIVE sort_values(_)
\* df.sort_values('timestamp').reset_index(drop=True): rows in ascending
\* timestamp order
sort_values(d) ==
    IF d = <<>> THEN <<>>
    ELSE LET m == CHOOSE i \in DOMAIN d :
                    \A k \in DOMAIN d :
                        \/ timestamp_of(d[i]) < timestamp_of(d[k])
                        \/ (timestamp_of(d[i]) = timestamp_of(d[k]) /\ i <= k)
         IN  <<d[m]>> \o sort_values([k \in 1..(Len(d) - 1) |->
                                         IF k < m THEN d[k] ELSE d[k + 1]])

\* prepare_data: the date column is there already, the rows are sorted
prepare_data(d) == sort_values(d)

\* lines 180-207: the range row of one group, letter_index as before line 181
bracket_row(group_df, date, index, tick) ==
    LET lo == low_to_tick_index(min_low(group_df), tick)
        hi == clamp_high(lo, high_to_tick_index_exclusive(max_high(group_df), tick))
    IN  [date |-> date,
         letter |-> letter_for(index),
         bracket_index |-> (index + 1) - 1,
         timestamp |-> group_df[1].minute,
         low |-> tick_index_to_price(lo, tick),
         high |-> tick_index_to_price(hi, tick),
         candle_open |-> group_df[1].open,
         candle_close |-> group_df[Len(group_df)].close]

\* lines 210-216: the blocks of one group
bracket_blocks(group_df, date, index, tick) ==
    LET lo == low_to_tick_index(min_low(group_df), tick)
        hi == clamp_high(lo, high_to_tick_index_exclusive(max_high(group_df), tick))
        ticks == tick_range(lo, hi)
    IN  [k \in DOMAIN ticks |->
            [date |-> date,
             price |-> tick_index_to_price(ticks[k], tick),
             letter |-> letter_for(index)]]

RECURSIVE session_brackets(_, _, _, _, _)
\* lines 178-216: the groups of a session from the one at position index on
session_brackets(sdf, date, index, tick, minutes) ==
    LET groups == tpo_groups(sdf, minutes)
    IN  IF index >= Len(groups) THEN [tpo |-> <<>>, ranges |-> <<>>]
        ELSE LET group_df == group_df_of(sdf, groups[index + 1], minutes)
                 rest == session_brackets(sdf, date, index + 1, tick, minutes)
             IN  [tpo |-> bracket_blocks(group_df, date, index, tick) \o rest.tpo,
                  ranges |-> <<bracket_row(group_df, date, index, tick)>> \o rest.ranges]

\* lines 218-246: the summary row of a session, given tpo_records
session_summary(sdf, date, records) ==
    LET value_area == calculate_value_area(session_tpos_of(records, date))
    IN  [date |-> date,
         session_high |-> max_high(sdf),
         session_low |-> min_low(sdf),
         session_open |-> sdf[1].open,
         session_close |-> sdf[Len(sdf)].close,
         poc |-> summary_poc(records, date, sdf[1].open),
         value_area_high |-> value_area.high,
         value_area_low |-> value_area.low,
         range |-> max_high(sdf) - min_low(sdf),
         num_periods |-> Len(sdf)]

RECURSIVE build_sessions(_, _, _, _, _)
\* lines 165-246: the sessions from the one at position k (0-based) on
build_sessions(d, k, tick, minutes, acc) ==
    IF k >= Len(session_dates(d)) THEN acc
    ELSE LET date == session_dates(d)[k + 1]
             sdf == session_df_of(d, date)
             b == session_brackets(sdf, date, 0, tick, minutes)
             records == acc.tpo_df \o b.tpo
         IN  build_sessions(d, k + 1, tick, minutes,
                 [tpo_df |-> records,
                  bracket_ranges_df |-> acc.bracket_ranges_df \o b.ranges,
                  summary_df |-> Append(acc.summary_df,
                                        session_summary(sdf, date, records))])

\* build_tpo: the returned triple; a table without rows is <<>>
build_tpo(d, tick, period) ==
    build_sessions(d, 0, tick, parse_period_to_minutes(period),
                   [tpo_df |-> <<>>, bracket_ranges_df |-> <<>>, summary_df |-> <<>>])

(***************************************************************************)
(* poc_movement.py.  The fetched candles are df, the processor of a        *)
(* tracker is tick_size and tpo_period.                                    *)
(***************************************************************************)
\* calculate_daily_poc: None, or the poc of the first summary row
calculate_daily_poc(d, tick, period) ==
    IF d = <<>> THEN None
    ELSE LET summary_df == build_tpo(prepare_data(d), tick, period).summary_df
         IN  IF summary_df = <<>> THEN None ELSE Some(summary_df[1].poc)

RECURSIVE unique(_)
\* df['date'].unique(): the dates in order of first appearance
unique(d) ==
    IF d = <<>> THEN <<>>
    ELSE LET rest == unique(SubSeq(d, 1, Len(d) - 1))
             date == d[Len(d)].date
         IN  IF \E k \in DOMAIN rest : rest[k] = date THEN rest ELSE Append(rest, date)

\* `if poc:` of line 125: neither None nor zero
truthy(poc) == poc # None /\ poc # Some(0)

\* the later POC is always taken as the higher one
MutDirectionUp(curr, prev) == IF curr # prev THEN 1 ELSE 0
\* line 137
direction_of(curr, prev) ==
    IF curr > prev THEN 1 ELSE IF curr < prev THEN 0 - 1 ELSE 0

\* line 141
bias_of(bias_score) ==
    IF bias_score > 0 THEN "BULLISH"
    ELSE IF bias_score < 0 THEN "BEARISH" ELSE "NEUTRAL"

\* lines 217-225 and 308-316: the score and the direction of one step
step_of(current, previous) ==
    IF current > previous THEN [score |-> 1, direction |-> "UP"]
    ELSE IF current < previous THEN [score |-> 0 - 1, direction |-> "DOWN"]
    ELSE [score |-> 0, direction |-> "FLAT"]

RECURSIVE sum_scores(_)
\* sum(m['score'] for m in movements)
sum_scores(ms) == IF ms = <<>> THEN 0 ELSE ms[1].score + sum_scores(Tail(ms))

\* run_poc_analysis, lines 395-397 and 415-420: what is printed for a result
interpretation(res) ==
    IF res = None THEN "POC analysis failed"
    ELSE IF res[1].total_score > 0 THEN "Bullish POC movement"
    ELSE IF res[1].total_score < 0 THEN "Bearish POC movement"
    ELSE "Neutral POC movement"

\* only the newest bracket is looked at
MutNewestOnly(tdf, idx) == SubSeq(tdf, idx, idx)
\* line 209: today_df.iloc[:idx]
current_df_of(tdf, idx) == SubSeq(tdf, 1, idx)

\* today_df and yesterday_df of track_poc_movement_today
today_df == sort_values(session_df_of(df, today_date))
yesterday_df == session_df_of(df, today_date - 1)
yesterday_poc == calculate_daily_poc(yesterday_df, tick_size, tpo_period)

\* track_poc_movement_web, lines 109-119
WebEnter ==
    /\ pc = "poc_enter"
    /\ poc_mode = "web"
    /\ daily_pocs' = <<>>
    /\ poc_pos' = 0
    /\ pc' = "poc_dates"
    /\ UNCHANGED <<configVars, dailyVars, controlVars, tick_size, engineVars, serviceVars, poc_mode, today_date, movements, prev_poc,
                   poc_ret, poc_report>>

\* lines 121-129: one date
WebDaily ==
    /\ pc = "poc_dates"
    /\ poc_mode = "web"
    /\ poc_pos < Len(unique(df))
    /\ LET date == unique(df)[poc_pos + 1]
           poc == calculate_daily_poc(session_df_of(df, date), tick_size, tpo_period)
       IN  daily_pocs' = IF truthy(poc)
                         THEN Append(daily_pocs, [date |-> date, poc |-> poc[1]])
                         ELSE daily_pocs
    /\ poc_pos' = poc_pos + 1
    /\ UNCHANGED <<configVars, dailyVars, controlVars, pc, tick_size, engineVars, serviceVars, poc_mode, today_date, movements, prev_poc,
                   poc_ret, poc_report>>

\* lines 132-133: two records or more, the movements are scored
WebScore ==
    /\ pc = "poc_dates"
    /\ poc_mode = "web"
    /\ poc_pos >= Len(unique(df))
    /\ Len(daily_pocs) >= 2
    /\ movements' = <<>>
    /\ poc_pos' = 1
    /\ pc' = "poc_moves"
    /\ UNCHANGED <<configVars, dailyVars, controlVars, tick_size, engineVars, serviceVars, poc_mode, today_date, daily_pocs, prev_poc,
                   poc_ret, poc_report>>

\* lines 142-151: fewer than two records
WebInsufficient ==
    /\ pc = "poc_dates"
    /\ poc_mode = "web"
    /\ poc_pos >= Len(unique(df))
    /\ Len(daily_pocs) < 2
    /\ poc_ret' = <<[daily_pocs |-> daily_pocs,
                     bias_score |-> 0,
                     bias |-> "INSUFFICIENT DATA",
                     days_analyzed |-> Len(daily_pocs)]>>
    /\ pc' = "poc_done"
    /\ UNCHANGED <<configVars, dailyVars, controlVars, tick_size, engineVars, serviceVars, poc_mode, today_date, poc_pos, daily_pocs,
                   movements, prev_poc, poc_report>>

\* lines 134-138: one pair, i = poc_pos
WebMove ==
    /\ pc = "poc_moves"
    /\ poc_mode = "web"
    /\ poc_pos < Len(daily_pocs)
    /\ movements' = Append(movements,
                           direction_of(daily_pocs[poc_pos + 1].poc, daily_pocs[poc_pos].poc))
    /\ poc_pos' = poc_pos + 1
    /\ UNCHANGED <<configVars, dailyVars, controlVars, pc, tick_size, engineVars, serviceVars, poc_mode, today_date, daily_pocs, prev_poc,
                   poc_ret, poc_report>>

\* lines 140-141 and 146-151
WebReturn ==
    /\ pc = "poc_moves"
    /\ poc_mode = "web"
    /\ poc_pos >= Len(daily_pocs)
    /\ poc_ret' = <<[daily_pocs |-> daily_pocs,
                     bias_score |-> SumSeq(movements),
                     bias |-> bias_of(SumSeq(movements)),
                     days_analyzed |-> Len(daily_pocs)]>>
    /\ pc' = "poc_done"
    /\ UNCHANGED <<configVars, dailyVars, controlVars, tick_size, engineVars, serviceVars, poc_mode, today_date, poc_pos, daily_pocs,
                   movements, prev_poc, poc_report>>

\* track_poc_movement_multiday, lines 273-287: fewer than two dates return None
MultiEnter ==
    /\ pc = "poc_enter"
    /\ poc_mode = "multiday"
    /\ IF Len(session_dates(df)) < 2
       THEN /\ poc_ret' = <<None>>
            /\ pc' = "poc_done"
       ELSE /\ poc_ret' = poc_ret
            /\ pc' = "poc_dates"
    /\ daily_pocs' = <<>>
    /\ poc_pos' = 0
    /\ UNCHANGED <<configVars, dailyVars, controlVars, tick_size, engineVars, serviceVars, poc_mode, today_date, movements, prev_poc,
                   poc_report>>

\* lines 289-297: one date
MultiDaily ==
    /\ pc = "poc_dates"
    /\ poc_mode = "multiday"
    /\ poc_pos < Len(session_dates(df))
    /\ LET date == session_dates(df)[poc_pos + 1]
           poc == calculate_daily_poc(session_df_of(df, date), tick_size, tpo_period)
       IN  daily_pocs' = IF poc # None
                         THEN Append(daily_pocs, [date |-> date, poc |-> poc[1]])
                         ELSE daily_pocs
    /\ poc_pos' = poc_pos + 1
    /\ UNCHANGED <<configVars, dailyVars, controlVars, pc, tick_size, engineVars, serviceVars, poc_mode, today_date, movements, prev_poc,
                   poc_ret, poc_report>>

\* line 302
MultiScore ==
    /\ pc = "poc_dates"
    /\ poc_mode = "multiday"
    /\ poc_pos >= Len(session_dates(df))
    /\ movements' = <<>>
    /\ poc_pos' = 1
    /\ pc' = "poc_moves"
    /\ UNCHANGED <<configVars, dailyVars, controlVars, tick_size, engineVars, serviceVars, poc_mode, today_date, daily_pocs, prev_poc,
                   poc_ret, poc_report>>

\* lines 304-325: one pair, i = poc_pos
MultiMove ==
    /\ pc = "poc_moves"
    /\ poc_mode = "multiday"
    /\ poc_pos < Len(daily_pocs)
    /\ LET current == daily_pocs[poc_pos + 1]
           previous == daily_pocs[poc_pos]
           step == step_of(current.poc, previous.poc)
       IN  movements' = Append(movements,
                               [date |-> current.date,
                                poc |-> current.poc,
                                prev_poc |-> previous.poc,
                                change |-> current.poc - previous.poc,
                                score |-> step.score,
                                direction |-> step.direction])
    /\ poc_pos' = poc_pos + 1
    /\ UNCHANGED <<configVars, dailyVars, controlVars, pc, tick_size, engineVars, serviceVars, poc_mode, today_date, daily_pocs, prev_poc,
                   poc_ret, poc_report>>

\* lines 327-337
MultiReturn ==
    /\ pc = "poc_moves"
    /\ poc_mode = "multiday"
    /\ poc_pos >= Len(daily_pocs)
    /\ poc_ret' = <<Some([days_analyzed |-> Len(movements),
                          movements |-> movements,
                          total_score |-> sum_scores(movements)])>>
    /\ pc' = "poc_done"
    /\ UNCHANGED <<configVars, dailyVars, controlVars, tick_size, engineVars, serviceVars, poc_mode, today_date, poc_pos, daily_pocs,
                   movements, prev_poc, poc_report>>

\* run_poc_analysis, lines 393-420, after track_poc_movement_multiday returned
RunReport ==
    /\ pc = "poc_done"
    /\ poc_mode = "multiday"
    /\ poc_report = <<>>
    /\ poc_report' = <<interpretation(poc_ret[1])>>
    /\ UNCHANGED <<configVars, dailyVars, controlVars, pc, tick_size, engineVars, serviceVars, poc_mode, today_date, poc_pos, daily_pocs,
                   movements, prev_poc, poc_ret>>

\* track_poc_movement_today, lines 175-205: without yesterday's POC, None
TodayEnter ==
    /\ pc = "poc_enter"
    /\ poc_mode = "today"
    /\ IF yesterday_poc = None
       THEN /\ poc_ret' = <<None>>
            /\ prev_poc' = prev_poc
            /\ pc' = "poc_done"
       ELSE /\ poc_ret' = poc_ret
            /\ prev_poc' = yesterday_poc
            /\ pc' = "poc_moves"
    /\ movements' = <<>>
    /\ poc_pos' = 0
    /\ UNCHANGED <<configVars, dailyVars, controlVars, tick_size, engineVars, serviceVars, poc_mode, today_date, daily_pocs, poc_report>>

\* lines 207-235: one iteration, idx = poc_pos + 1
TodayStep ==
    /\ pc = "poc_moves"
    /\ poc_mode = "today"
    /\ poc_pos < Len(today_df)
    /\ LET current_df == current_df_of(today_df, poc_pos + 1)
           current_poc == calculate_daily_poc(current_df, tick_size, tpo_period)
       IN  IF current_poc # None
           THEN LET step == step_of(current_poc[1], prev_poc[1])
                IN  /\ movements' = Append(movements,
                                           [time |-> current_df[Len(current_df)].minute,
                                            poc |-> current_poc[1],
                                            prev_poc |-> prev_poc[1],
                                            score |-> step.score,
                                            direction |-> step.direction])
                    /\ prev_poc' = current_poc
           ELSE UNCHANGED <<configVars, dailyVars, controlVars, movements, prev_poc>>
    /\ poc_pos' = poc_pos + 1
    /\ UNCHANGED <<configVars, dailyVars, controlVars, pc, tick_size, engineVars, serviceVars, poc_mode, today_date, daily_pocs, poc_ret,
                   poc_report>>

\* lines 237-250
TodayReturn ==
    /\ pc = "poc_moves"
    /\ poc_mode = "today"
    /\ poc_pos >= Len(today_df)
    /\ poc_ret' = <<Some([date |-> today_date,
                          yesterday_poc |-> yesterday_poc[1],
                          movements |-> movements,
                          total_score |-> sum_scores(movements),
                          intervals_tracked |-> Len(movements)])>>
    /\ pc' = "poc_done"
    /\ UNCHANGED <<configVars, dailyVars, controlVars, tick_size, engineVars, serviceVars, poc_mode, today_date, poc_pos, daily_pocs,
                   movements, prev_poc, poc_report>>

NextPoc ==
    \/ WebEnter \/ WebDaily \/ WebScore \/ WebInsufficient \/ WebMove \/ WebReturn
    \/ MultiEnter \/ MultiDaily \/ MultiScore \/ MultiMove \/ MultiReturn \/ RunReport
    \/ TodayEnter \/ TodayStep \/ TodayReturn

\* The fetched candles of the model.  For the daily trackers: up to
\* MaxPocDays days of one 1h candle each, at one price.  For the tracker of
\* today: 30m candles, yesterday (day 1) with one candle or none and today
\* (day 2) with up to MaxCandles.
PocPrices == {100, 101, 102, 105}
PocDays ==
    UNION { { MakeDf([s \in 1..n |-> 1], 1, [k \in 1..n |-> <<f[k], f[k]>>], 0, 60) :
                f \in [1..n -> PocPrices] } : n \in 0..MaxPocDays }
TodayShapes == { <<y, k>> : y \in 0..1, k \in 0..MaxCandles }
TodayDfs ==
    UNION { { MakeDf(sh, 1, lh, 0, 30) : lh \in [1..SumShape(sh) -> PricePairs] } :
              sh \in TodayShapes }

InitPoc ==
    /\ pc = "poc_enter"
    /\ IdleService
    /\ IdleControl
    /\ IdleConfig
    /\ IdleDaily
    /\ tick_size \in BuildTicks
    /\ IdleQuant
    /\ IdleRot
    /\ IdleVA
    /\ InitLocals
    /\ \/ /\ poc_mode \in {"web", "multiday"}
          /\ tpo_period = [n |-> 1, unit |-> "h"]
          /\ df \in PocDays
          /\ today_date = 0
       \/ /\ poc_mode = "today"
          /\ tpo_period = [n |-> 30, unit |-> "m"]
          /\ df \in TodayDfs
          /\ today_date = 2
    /\ poc_pos = 0
    /\ daily_pocs = <<>>
    /\ movements = <<>>
    /\ prev_poc = <<>>
    /\ poc_ret = <<>>
    /\ poc_report = <<>>

SpecPoc == InitPoc /\ [][NextPoc]_vars

(***************************************************************************)
(* The rotation factor as a function, and the profile it is taken from.    *)
(* A string is the sequence of its characters; '.' is <<".">>.             *)
(***************************************************************************)
\* lines 97-128: the table of the rows b
rotation_table(b) ==
    LET n == Len(b)
        H == [i \in 1..(n - 1) |-> score(b[i + 1].high, b[i].high)]
        L == [i \in 1..(n - 1) |-> score(b[i + 1].low, b[i].low)]
        N == [i \in 1..(n - 1) |-> net_of(H[i], L[i])]
        cols == [i \in 1..(n - 1) |-> <<b[i + 1].letter, "vs", b[i].letter>>]
    IN  [columns |-> Append(cols, <<"Sum">>),
         High |-> Append(H, SumSeq(H)),
         Low |-> Append(L, SumSeq(L)),
         Net |-> Append(N, SumSeq(N))]

\* one row is enough for a table
MutTableFromOneRow(b) == IF Len(b) < 1 THEN EmptyTable ELSE rotation_table(b)
\* calculate_rotation_factor: the returned table
calculate_rotation_factor(b) == IF Len(b) < 2 THEN EmptyTable ELSE rotation_table(b)

\* the sum of the High row is read
MutNetFromHigh(rf_table) == rf_table.High[Len(rf_table.High)]
\* rf_table.loc['Net', 'Sum'], and the same of the other rows
net_sum_of(rf_table) == rf_table.Net[Len(rf_table.Net)]
high_sum_of(rf_table) == rf_table.High[Len(rf_table.High)]
low_sum_of(rf_table) == rf_table.Low[Len(rf_table.Low)]

\* the letters of the blocks of a date at a price, joined in table order
joined_letters(tpo, date, p) ==
    LET rows == SelectSeq(tpo, LAMBDA r : r.date = date /\ r.price = p)
    IN  [k \in DOMAIN rows |-> rows[k].letter]

\* groupby(['date', 'price'])['letter'].apply(''.join), pivot, sort_index,
\* fillna('.'): prices as index, dates as columns, a cell is the joined
\* letters or '.'
profile_wide_of(tpo) ==
    LET prices == { tpo[i].price : i \in DOMAIN tpo }
        dates == { tpo[i].date : i \in DOMAIN tpo }
    IN  [index |-> prices,
         columns |-> SortedSeq(dates),
         cell |-> [pd \in prices \X dates |->
                     IF joined_letters(tpo, pd[2], pd[1]) = <<>>
                     THEN <<".">>
                     ELSE joined_letters(tpo, pd[2], pd[1])]]

\* min() and max() of a non-empty set of prices
min_of(S) == CHOOSE x \in S : \A y \in S : x <= y
max_of(S) == CHOOSE x \in S : \A y \in S : x >= y

\* extract_bracket_ranges: one row per letter present, in alphabet order
extract_bracket_ranges(profile_df, date_column) ==
    LET active == { p \in profile_df.index : profile_df.cell[<<p, date_column>>] # <<".">> }
        has(p, letter) ==
            \E k \in DOMAIN profile_df.cell[<<p, date_column>>] :
                profile_df.cell[<<p, date_column>>][k] = letter
        letters_sorted == SelectSeq(letters, LAMBDA l : \E p \in active : has(p, l))
    IN  IF active = {} THEN <<>>
        ELSE [k \in DOMAIN letters_sorted |->
                [letter |-> letters_sorted[k],
                 low |-> min_of({ p \in active : has(p, letters_sorted[k]) }),
                 high |-> max_of({ p \in active : has(p, letters_sorted[k]) })]]

\* daily_analysis.py, calculate_rotation_for_day
calculate_rotation_for_day(tpo) ==
    IF tpo = <<>>
    THEN [total_rotation |-> 0, bracket_count |-> 0, high_score |-> 0, low_score |-> 0]
    ELSE LET profile == profile_wide_of(tpo)
             bracket_ranges == extract_bracket_ranges(profile, profile.columns[1])
             rf_table == calculate_rotation_factor(bracket_ranges)
             none == [total_rotation |-> 0, bracket_count |-> Len(bracket_ranges),
                      high_score |-> 0, low_score |-> 0]
         IN  IF bracket_ranges = <<>> \/ Len(bracket_ranges) < 2 THEN none
             ELSE IF rf_table = EmptyTable THEN none
             ELSE [total_rotation |-> net_sum_of(rf_table),
                   bracket_count |-> Len(bracket_ranges),
                   high_score |-> high_sum_of(rf_table),
                   low_score |-> low_sum_of(rf_table)]

\* analyze_tpo_profile, lines 163-180: all_results, the tables by date column
all_results_of(profile_df) ==
    LET kept == SelectSeq(profile_df.columns,
                          LAMBDA d :
                            /\ ~(extract_bracket_ranges(profile_df, d) = <<>>
                                 \/ Len(extract_bracket_ranges(profile_df, d)) < 2)
                            /\ calculate_rotation_factor(
                                   extract_bracket_ranges(profile_df, d)) # EmptyTable)
    IN  [k \in DOMAIN kept |->
            [date_col |-> kept[k],
             rf_table |-> calculate_rotation_factor(
                              extract_bracket_ranges(profile_df, kept[k]))]]

(***************************************************************************)
(* market_control_analyzer.py: analyze_market_control for one combination  *)
(* of a timeframe and a date range, whose fetched candles are df.          *)
(***************************************************************************)
\* the threshold is met, not exceeded
MutStrongFromThreshold(total, dates) ==
    IF total > 0
    THEN [control |-> "BUYER",
          strength |-> IF total >= dates * 2 THEN "Strong" ELSE "Moderate"]
    ELSE IF total < 0
    THEN [control |-> "SELLER",
          strength |-> IF total <= (0 - dates) * 2 THEN "Strong" ELSE "Moderate"]
    ELSE [control |-> "NEUTRAL", strength |-> "Balanced"]
\* lines 89-98
control_of(total, dates) ==
    IF total > 0
    THEN [control |-> "BUYER",
          strength |-> IF total > dates * 2 THEN "Strong" ELSE "Moderate"]
    ELSE IF total < 0
    THEN [control |-> "SELLER",
          strength |-> IF total < (0 - dates) * 2 THEN "Strong" ELSE "Moderate"]
    ELSE [control |-> "NEUTRAL", strength |-> "Balanced"]

\* lines 55-75: the tables are built; a tpo_df without rows has no column
\* 'date', and the groupby of line 68 raises (see ControlError)
ControlProcess ==
    /\ pc = "mc_enter"
    /\ LET built == build_tpo(prepare_data(df), tick_size, tpo_period).tpo_df
       IN  /\ built # <<>>
           /\ tpo_df' = built
           /\ profile_wide' = profile_wide_of(built)
    /\ total_net_rotation' = 0
    /\ dates_analyzed' = 0
    /\ date_pos' = 0
    /\ pc' = "mc_dates"
    /\ UNCHANGED <<tick_size, engineVars, serviceVars, configVars, dailyVars, pocVars, results>>

\* lines 112-122: the exception of line 68 is caught
ControlError ==
    /\ pc = "mc_enter"
    /\ build_tpo(prepare_data(df), tick_size, tpo_period).tpo_df = <<>>
    /\ results' = Append(results,
                         [total_net_rotation |-> 0,
                          days_analyzed |-> 0,
                          control |-> "ERROR",
                          strength |-> "KeyError"])
    /\ pc' = "mc_done"
    /\ UNCHANGED <<tick_size, engineVars, serviceVars, configVars, dailyVars, pocVars, tpo_df, profile_wide, date_pos,
                   total_net_rotation, dates_analyzed>>

\* lines 77-87: one column of profile_wide
ControlDate ==
    /\ pc = "mc_dates"
    /\ date_pos < Len(profile_wide.columns)
    /\ LET date_col == profile_wide.columns[date_pos + 1]
           bracket_ranges == extract_bracket_ranges(profile_wide, date_col)
           rf_table == calculate_rotation_factor(bracket_ranges)
       IN  IF bracket_ranges # <<>> /\ Len(bracket_ranges) >= 2 /\ rf_table # EmptyTable
           THEN /\ total_net_rotation' = total_net_rotation + net_sum_of(rf_table)
                /\ dates_analyzed' = dates_analyzed + 1
           ELSE UNCHANGED <<total_net_rotation, dates_analyzed>>
    /\ date_pos' = date_pos + 1
    /\ UNCHANGED <<pc, tick_size, engineVars, serviceVars, configVars, dailyVars, pocVars, tpo_df, profile_wide, results>>

\* lines 89-108
ControlClassify ==
    /\ pc = "mc_dates"
    /\ date_pos >= Len(profile_wide.columns)
    /\ results' = Append(results,
                         [total_net_rotation |-> total_net_rotation,
                          days_analyzed |-> dates_analyzed,
                          control |-> control_of(total_net_rotation, dates_analyzed).control,
                          strength |-> control_of(total_net_rotation, dates_analyzed).strength])
    /\ pc' = "mc_done"
    /\ UNCHANGED <<tick_size, engineVars, serviceVars, configVars, dailyVars, pocVars, tpo_df, profile_wide, date_pos,
                   total_net_rotation, dates_analyzed>>

NextControl == ControlProcess \/ ControlError \/ ControlDate \/ ControlClassify

\* the timeframes of lines 37-41: the candle interval is the bracket length
Timeframes == { [n |-> 30, unit |-> "m"], [n |-> 1, unit |-> "h"], [n |-> 4, unit |-> "h"] }

\* the day lengths of build_tpo's model, and two days of two brackets each
ControlShapes == Shapes \cup { <<2, 2>> }

\* the fetched candles: those of build_tpo's model, or none at all
InitControl ==
    /\ pc = "mc_enter"
    /\ IdleService
    /\ IdlePoc
    /\ IdleConfig
    /\ IdleDaily
    /\ tick_size = 1
    /\ tpo_period \in Timeframes
    /\ \/ df = <<>>
       \/ \E sh \in ControlShapes : \E lh \in [1..SumShape(sh) -> PricePairs] :
             df = MakeDf(sh, 1, lh, 0, parse_period_to_minutes(tpo_period))
    /\ InitLocals
    /\ IdleQuant
    /\ IdleRot
    /\ IdleVA
    /\ IdleControl

SpecControl == InitControl /\ [][NextControl]_vars

(***************************************************************************)
(* TPOProcessor as configured by its caller: __init__ with the arguments   *)
(* asset, tick_size and tpo_period, then calls of the quantizer and of the *)
(* bracket grouping on the processor.  __init__ has no check of its        *)
(* arguments and cannot raise for them; the assets are those of            *)
(* ASSET_TICK_SIZES whose tick size is a whole number of price units, and  *)
(* one that the table does not know.                                       *)
(***************************************************************************)
\* lines 18-25, and the default 1.0 of .get(self.asset, 1.0)
ASSET_TICK_SIZES(a) ==
    IF a = "BTC" THEN 100
    ELSE IF a = "ETH" THEN 3
    ELSE IF a = "BNB" THEN 1
    ELSE IF a = "PAXG" THEN 5
    ELSE 1

\* line 56: tick_size or ASSET_TICK_SIZES.get(self.asset, 1.0)
init_tick_size(a, arg) == IF truthy(arg) THEN arg[1] ELSE ASSET_TICK_SIZES(a)

\* line 117 for any divisor but 0: the true quotient, truncated by astype(int)
truncated_group(minute, minutes) ==
    IF minutes > 0 THEN assign_tpo_group(minute, minutes)
    ELSE 0 - (minute \div (0 - minutes))

ConfigPrices == {100, 103}

\* low_to_tick_index(price) on the configured processor
ConfigQuantize ==
    /\ pc = "cfg_ready"
    /\ \E p \in ConfigPrices :
          cfg_out' = <<[call |-> "low_to_tick_index", arg |-> p, with |-> tick_size,
                        ret |-> low_to_tick_index(p, tick_size)]>>
    /\ UNCHANGED <<pc, tick_size, engineVars, serviceVars, pocVars, controlVars, dailyVars, asset,
                   tick_arg>>

\* lines 162 and 175: the bracket length is parsed and a candle is grouped
ConfigGroup ==
    /\ pc = "cfg_ready"
    /\ parse_period_to_minutes(tpo_period) # 0
    /\ \E m \in SparseMinutes :
          cfg_out' = <<[call |-> "_assign_tpo_groups", arg |-> m,
                        with |-> parse_period_to_minutes(tpo_period),
                        ret |-> truncated_group(m, parse_period_to_minutes(tpo_period))]>>
    /\ UNCHANGED <<pc, tick_size, engineVars, serviceVars, pocVars, controlVars, dailyVars, asset,
                   tick_arg>>

\* line 117 with tpo_minutes = 0: the quotient is not finite and astype(int)
\* raises, in build_tpo
ConfigGroupRaises ==
    /\ pc = "cfg_ready"
    /\ parse_period_to_minutes(tpo_period) = 0
    /\ cfg_out' = <<[call |-> "_assign_tpo_groups", arg |-> 0, with |-> 0,
                     ret |-> "IntCastingNaNError"]>>
    /\ pc' = "cfg_raised"
    /\ UNCHANGED <<tick_size, engineVars, serviceVars, pocVars, controlVars, dailyVars, asset, tick_arg>>

NextConfig == ConfigQuantize \/ ConfigGroup \/ ConfigGroupRaises

ConfigAssets == {"BTC", "ETH", "BNB", "PAXG", "DOGE"}
ConfigTickArgs == {None} \cup { Some(t) : t \in (0 - MaxTick)..MaxTick }
ConfigPeriods == { [n |-> 0 - 30, unit |-> "m"], [n |-> 0, unit |-> "m"],
                   [n |-> 30, unit |-> "m"], [n |-> 1, unit |-> "h"] }

\* the processor as __init__ leaves it (lines 55-58)
InitConfig ==
    /\ pc = "cfg_ready"
    /\ IdleService
    /\ asset \in ConfigAssets
    /\ tick_arg \in ConfigTickArgs
    /\ tick_size = init_tick_size(asset, tick_arg)
    /\ tpo_period \in ConfigPeriods
    /\ cfg_out = <<>>
    /\ df = <<>>
    /\ InitLocals
    /\ IdleQuant
    /\ IdleRot
    /\ IdleVA
    /\ IdlePoc
    /\ IdleControl
    /\ IdleDaily

SpecConfig == InitConfig /\ [][NextConfig]_vars

(***************************************************************************)
(* daily_analysis.py: analyze_daily_metrics for one timeframe.  The three  *)
(* fetches give the candles of today, yesterday and the day before, each   *)
(* possibly without any candle; a candle has a volume.                     *)
(***************************************************************************)
Days == {"today", "yesterday", "day_before_yesterday"}

\* df['volume'].sum()
volume_sum(d) == SumSeq([i \in DOMAIN d |-> d[i].volume])

\* lines 186-226; va_percentage is the quotient num / den
calculate_value_area_volume(d, tpo) ==
    IF tpo = <<>> \/ d = <<>>
    THEN [vah |-> 0, val |-> 0, va_volume |-> 0, total_volume |-> 0]
    ELSE LET value_area == calculate_value_area(tpo)
             vah == value_area.high
             val == value_area.low
         IN  IF vah = None \/ val = None
             THEN [vah |-> 0, val |-> 0, va_volume |-> 0, total_volume |-> volume_sum(d)]
             ELSE LET va_volume ==
                          volume_sum(SelectSeq(d, LAMBDA c : c.low <= vah[1] /\ c.high >= val[1]))
                      total_volume == volume_sum(d)
                  IN  [vah |-> vah[1], val |-> val[1], va_volume |-> va_volume,
                       total_volume |-> total_volume,
                       va_percentage |->
                           IF total_volume > 0
                           THEN [num |-> va_volume * 100, den |-> total_volume]
                           ELSE [num |-> 0, den |-> 1]]

\* lines 276-292: the candles are prepared and the blocks of each day built
DailyBuild ==
    /\ pc = "daily_enter"
    /\ day_tpo' = [d \in Days |->
                      build_tpo(prepare_data(day_df[d]), tick_size, tpo_period).tpo_df]
    /\ pc' = "daily_rotation"
    /\ UNCHANGED <<tick_size, engineVars, serviceVars, pocVars, controlVars, configVars, day_df,
                   day_rotation, day_volume, day_va, daily_result>>

\* lines 294-302: rotation factors and volumes
DailyRotation ==
    /\ pc = "daily_rotation"
    /\ day_rotation' = [d \in Days |-> calculate_rotation_for_day(day_tpo[d])]
    /\ day_volume' = [d \in Days |-> volume_sum(prepare_data(day_df[d]))]
    /\ pc' = "daily_va"
    /\ UNCHANGED <<tick_size, engineVars, serviceVars, pocVars, controlVars, configVars, day_df,
                   day_tpo, day_va, daily_result>>

\* lines 304-307: value area metrics
DailyValueArea ==
    /\ pc = "daily_va"
    /\ day_va' = [d \in Days |->
                     calculate_value_area_volume(prepare_data(day_df[d]), day_tpo[d])]
    /\ pc' = "daily_store"
    /\ UNCHANGED <<tick_size, engineVars, serviceVars, pocVars, controlVars, configVars, day_df,
                   day_tpo, day_rotation, day_volume, daily_result>>

\* lines 309-344: the record of the timeframe; every key read is there
DailyStore ==
    /\ pc = "daily_store"
    /\ \A d \in Days : "va_percentage" \in DOMAIN day_va[d]
    /\ daily_result' = <<[d \in Days |->
                            [rotation |-> day_rotation[d].total_rotation,
                             high_score |-> day_rotation[d].high_score,
                             low_score |-> day_rotation[d].low_score,
                             brackets |-> day_rotation[d].bracket_count,
                             total_volume |-> day_volume[d],
                             vah |-> day_va[d].vah,
                             val |-> day_va[d].val,
                             va_volume |-> day_va[d].va_volume,
                             va_percentage |-> day_va[d].va_percentage]]>>
    /\ pc' = "daily_done"
    /\ UNCHANGED <<tick_size, engineVars, serviceVars, pocVars, controlVars, configVars, day_df,
                   day_tpo, day_rotation, day_volume, day_va>>

\* lines 320, 331, 342 and 348-350: a metrics dict without the key
\* 'va_percentage' makes the read raise KeyError, which is caught
DailyError ==
    /\ pc = "daily_store"
    /\ ~ (\A d \in Days : "va_percentage" \in DOMAIN day_va[d])
    /\ daily_result' = <<[error |-> "'va_percentage'"]>>
    /\ pc' = "daily_done"
    /\ UNCHANGED <<tick_size, engineVars, serviceVars, pocVars, controlVars, configVars, day_df,
                   day_tpo, day_rotation, day_volume, day_va>>

NextDaily == DailyBuild \/ DailyRotation \/ DailyValueArea \/ DailyStore \/ DailyError

\* the candles of a day: up to MaxDayCandles, one per interval from midnight
DailyKinds == { [low |-> 100, high |-> 100, volume |-> 5],
                [low |-> 102, high |-> 103, volume |-> 0] }
DailyDate(d) == IF d = "today" THEN 3 ELSE IF d = "yesterday" THEN 2 ELSE 1
DailyCandles(d, kinds, step) ==
    [k \in DOMAIN kinds |->
        [date |-> DailyDate(d), minute |-> (k - 1) * step,
         open |-> kinds[k].low, high |-> kinds[k].high,
         low |-> kinds[k].low, close |-> kinds[k].high,
         volume |-> kinds[k].volume]]
DailyKindSeqs == UNION { [1..n -> DailyKinds] : n \in 0..MaxDayCandles }

\* lines 267 and 279: the timeframes, and the processor of the asset
InitDaily ==
    /\ pc = "daily_enter"
    /\ IdleService
    /\ asset \in {"BNB", "ETH"}
    /\ tick_arg = None
    /\ cfg_out = <<>>
    /\ tick_size = init_tick_size(asset, tick_arg)
    /\ tpo_period \in { [n |-> 30, unit |-> "m"], [n |-> 1, unit |-> "h"] }
    /\ \E kinds \in [Days -> DailyKindSeqs] :
          day_df = [d \in Days |->
                       DailyCandles(d, kinds[d], parse_period_to_minutes(tpo_period))]
    /\ day_tpo = <<>>
    /\ day_rotation = <<>>
    /\ day_volume = <<>>
    /\ day_va = <<>>
    /\ daily_result = <<>>
    /\ df = <<>>
    /\ InitLocals
    /\ IdleQuant
    /\ IdleRot
    /\ IdleVA
    /\ IdlePoc
    /\ IdleControl

SpecDaily == InitDaily /\ [][NextDaily]_vars

(***************************************************************************)
(* fetch_data.py: the paging loop of fetch_binance_klines.  Times are      *)
(* whole numbers from start_time = 0 to end_time = MaxFetchTime, limit is  *)
(* MaxPage, and a candle is its close time (column 6 of a kline).  A       *)
(* request fails or returns a page of at most limit candles, none of       *)
(* which closes before the startTime asked for.                            *)
(***************************************************************************)
start_time == 0
end_time == MaxFetchTime
limit == MaxPage

\* the pages that a request for startTime = t can return: close times in
\* ascending order
Pages(t) ==
    { page \in UNION { [1..n -> t..(MaxFetchTime + 1)] : n \in 0..limit } :
        \A k \in 1..(Len(page) - 1) : page[k] < page[k + 1] }

\* the request is repeated
MutRetry == "fetch_loop"
\* lines 93-95: break
on_request_error == "fetch_convert"

\* line 63: the test of the while loop
FetchTest ==
    /\ pc = "fetch_loop"
    /\ pc' = IF current_start < end_time THEN "fetch_request" ELSE "fetch_convert"
    /\ UNCHANGED <<tick_size, engineVars, pocVars, controlVars, configVars, dailyVars,
                   callVars, webVars, fetchVars>>

\* lines 72-91: the request succeeds
FetchPage ==
    /\ pc = "fetch_request"
    /\ \E data \in Pages(current_start) :
          IF data = <<>>
          THEN /\ pc' = "fetch_convert"
               /\ UNCHANGED <<all_data, current_start>>
          ELSE /\ all_data' = all_data \o data
               /\ current_start' = data[Len(data)] + 1
               /\ pc' = IF Len(data) < limit THEN "fetch_convert" ELSE "fetch_loop"
    /\ UNCHANGED <<tick_size, engineVars, pocVars, controlVars, configVars, dailyVars,
                   callVars, webVars, fetch_ret>>

\* lines 73-74 raise RequestException
FetchFail ==
    /\ pc = "fetch_request"
    /\ pc' = "fetch_failed"
    /\ UNCHANGED <<tick_size, engineVars, pocVars, controlVars, configVars, dailyVars,
                   callVars, webVars, fetchVars>>

\* lines 93-95: the handler
FetchExcept ==
    /\ pc = "fetch_failed"
    /\ pc' = on_request_error
    /\ UNCHANGED <<tick_size, engineVars, pocVars, controlVars, configVars, dailyVars,
                   callVars, webVars, fetchVars>>

\* lines 97-124: the candles as a frame sorted by time
FetchReturn ==
    /\ pc = "fetch_convert"
    /\ fetch_ret' = <<SortedSeq({ all_data[k] : k \in DOMAIN all_data })>>
    /\ pc' = "fetch_done"
    /\ UNCHANGED <<tick_size, engineVars, pocVars, controlVars, configVars, dailyVars,
                   callVars, webVars, all_data, current_start>>

NextFetch == FetchTest \/ FetchPage \/ FetchFail \/ FetchExcept \/ FetchReturn

InitFetch ==
    /\ pc = "fetch_loop"
    /\ current_start = start_time
    /\ all_data = <<>>
    /\ fetch_ret = <<>>
    /\ tick_size = 1
    /\ IdleQuant
    /\ IdleRot
    /\ IdleVA
    /\ IdleBuild
    /\ IdlePoc
    /\ IdleControl
    /\ IdleConfig
    /\ IdleDaily
    /\ IdleCall
    /\ IdleWeb

SpecFetch == InitFetch /\ [][NextFetch]_vars

\* the function runs on: every request returns or fails
SpecFetchLive == SpecFetch /\ WF_vars(NextFetch)

(***************************************************************************)
(* web_app.py: the handler of /api/analyze.  The server handles requests   *)
(* on threads of its own, two of them here; analysis_results is the one    *)
(* dictionary of the module, results and profile_wide are locals of a      *)
(* call.  A request names a symbol and the options run_tpo and             *)
(* run_rotation; the candles of a symbol stand for its symbol, interval    *)
(* and date range.  The display tables of the TPO answer are left out.     *)
(***************************************************************************)
Handlers == 1..2
Symbols == {"BTCUSDT", "ETHUSDT"}

\* the candles the exchange has for a symbol: one day of two brackets, rising
\* for the one and falling for the other
candles_of(symbol) ==
    MakeDf(<<2>>, 1,
           IF symbol = "BTCUSDT" THEN << <<100, 102>>, <<102, 103>> >>
                                 ELSE << <<102, 103>>, <<100, 102>> >>,
           0, 60)

\* fetch_and_process_tpo for the symbol with tpo_period 1h
fetch_and_process_tpo(symbol) ==
    build_tpo(prepare_data(candles_of(symbol)), 1, [n |-> 1, unit |-> "h"])

\* d[k] = v on a dictionary
dict_set(d, k, v) == [x \in DOMAIN d \cup {k} |-> IF x = k THEN v ELSE d[x]]

\* lines 185-206: rotation_results of a profile; the table has no row 'Up' or
\* 'Down', so that total_up and total_down are 0
rotation_results_of(profile_df) ==
    LET all == all_results_of(profile_df)
    IN  [k \in DOMAIN all |->
            [date |-> all[k].date_col,
             net_rotation |-> net_sum_of(all[k].rf_table),
             total_up |-> 0,
             total_down |-> 0]]

\* what no step of a handler touches
webOthers ==
    <<pc, tick_size, engineVars, pocVars, controlVars, configVars, dailyVars, callVars,
      fetchVars>>

\* a handler thread with no request
NoRequest ==
    [at |-> "idle", symbol |-> "", run_tpo |-> FALSE, run_rotation |-> FALSE,
     analyses |-> <<>>, response |-> <<>>]

\* lines 75-115: the request is read and results made
WebReceive(h) ==
    /\ web_req[h].at \in {"idle", "done"}
    /\ \E symbol \in Symbols, run_tpo \in BOOLEAN, run_rotation \in BOOLEAN :
          web_req' = [web_req EXCEPT ![h] =
                         [at |-> "step1", symbol |-> symbol, run_tpo |-> run_tpo,
                          run_rotation |-> run_rotation, analyses |-> <<>>,
                          response |-> <<>>]]
    /\ UNCHANGED <<analysis_results, webOthers>>

\* lines 117-178: the profile of the request is built, answered and stored
WebTpo(h) ==
    /\ web_req[h].at = "step1"
    /\ web_req[h].run_tpo
    /\ LET built == fetch_and_process_tpo(web_req[h].symbol)
           wide == profile_wide_of(built.tpo_df)
       IN  /\ web_req' = [web_req EXCEPT
                 ![h].analyses = dict_set(@, "tpo",
                     [tpo_blocks |-> Len(built.tpo_df),
                      time_brackets |-> Len(built.bracket_ranges_df),
                      daily_sessions |-> Len(built.summary_df),
                      summary |-> built.summary_df,
                      bracket_ranges |-> built.bracket_ranges_df,
                      dates |-> wide.columns]),
                 ![h].at = "step2"]
           /\ analysis_results' =
                 dict_set(dict_set(dict_set(analysis_results,
                     "tpo_df", built.tpo_df),
                     "summary_df", built.summary_df),
                     "profile_wide", wide)
    /\ UNCHANGED webOthers

\* line 117 false
WebSkipTpo(h) ==
    /\ web_req[h].at = "step1"
    /\ ~web_req[h].run_tpo
    /\ web_req' = [web_req EXCEPT ![h].at = "step2"]
    /\ UNCHANGED <<analysis_results, webOthers>>

\* lines 255-259: the fetch raises, the answer is the error
WebRaise(h) ==
    /\ web_req[h].at = "step1"
    /\ web_req[h].run_tpo
    /\ web_req' = [web_req EXCEPT ![h].at = "done",
                                  ![h].response = <<[success |-> FALSE]>>]
    /\ UNCHANGED <<analysis_results, webOthers>>

\* lines 181-209: the rotation of the profile that analysis_results holds
WebRotation(h) ==
    /\ web_req[h].at = "step2"
    /\ IF web_req[h].run_rotation /\ "profile_wide" \in DOMAIN analysis_results
       THEN web_req' = [web_req EXCEPT
                ![h].analyses = dict_set(@, "rotation",
                    rotation_results_of(analysis_results["profile_wide"])),
                ![h].at = "respond"]
       ELSE web_req' = [web_req EXCEPT ![h].at = "respond"]
    /\ UNCHANGED <<analysis_results, webOthers>>

\* lines 250-253: results are kept for the PDF and answered
WebRespond(h) ==
    /\ web_req[h].at = "respond"
    /\ LET answer == [symbol |-> web_req[h].symbol, analyses |-> web_req[h].analyses]
       IN  /\ analysis_results' = dict_set(analysis_results, "latest", answer)
           /\ web_req' = [web_req EXCEPT
                 ![h].at = "done",
                 ![h].response = <<[success |-> TRUE, results |-> answer]>>]
    /\ UNCHANGED webOthers

NextWeb ==
    \E h \in Handlers :
        \/ WebReceive(h)
        \/ WebTpo(h)
        \/ WebSkipTpo(h)
        \/ WebRaise(h)
        \/ WebRotation(h)
        \/ WebRespond(h)

InitWeb ==
    /\ pc = "web"
    /\ analysis_results = <<>>
    /\ web_req = [h \in Handlers |-> NoRequest]
    /\ tick_size = 1
    /\ IdleQuant
    /\ IdleRot
    /\ IdleVA
    /\ IdleBuild
    /\ IdlePoc
    /\ IdleControl
    /\ IdleConfig
    /\ IdleDaily
    /\ IdleCall
    /\ IdleFetch

SpecWeb == InitWeb /\ [][NextWeb]_vars

(***************************************************************************)
(* Driver of the quantizer: the three functions applied to a drawn price.  *)
(***************************************************************************)
InitQuant ==
    /\ pc = "quant"
    /\ IdleAnalysis
    /\ tick_size \in QuantTicks
    /\ price \in QuantPrices
    /\ low_out = <<>>
    /\ high_out = <<>>
    /\ back_out = <<>>
    /\ IdleRot
    /\ IdleVA
    /\ IdleBuild

CallLow ==
    /\ pc = "quant"
    /\ low_out = <<>>
    /\ low_out' = <<low_to_tick_index(price, tick_size)>>
    /\ UNCHANGED <<analysisVars, pc, tick_size, price, high_out, back_out, rotVars, vaVars, buildVars>>

CallHigh ==
    /\ pc = "quant"
    /\ high_out = <<>>
    /\ high_out' = <<high_to_tick_index_exclusive(price, tick_size)>>
    /\ UNCHANGED <<analysisVars, pc, tick_size, price, low_out, back_out, rotVars, vaVars, buildVars>>

CallPrice ==
    /\ pc = "quant"
    /\ low_out # <<>>
    /\ back_out = <<>>
    /\ back_out' = <<tick_index_to_price(low_out[1], tick_size)>>
    /\ UNCHANGED <<analysisVars, pc, tick_size, price, low_out, high_out, rotVars, vaVars, buildVars>>

NextQuant == CallLow \/ CallHigh \/ CallPrice

SpecQuant == InitQuant /\ [][NextQuant]_vars

(***************************************************************************)
(* Claims about the price quantizer (SpecQuant).                           *)
(***************************************************************************)
\* The integers k that a quotient of the model can be
QuantIndexes == (0 - MaxQuantPrice - 1)..(MaxQuantPrice + 1)

\* floor(p / tick): the one integer f with f * tick <= p < (f + 1) * tick
IsFloorOf(f, p, tick) == f * tick <= p /\ p < (f + 1) * tick

\* C1: a high price that is exactly k * tick_size gets index k - 1, and any
\* other high price gets floor(price / tick_size).
C1_BoundaryExclusion ==
    high_out # <<>> =>
        IF \E k \in QuantIndexes : price = k * tick_size
        THEN \A k \in QuantIndexes : price = k * tick_size => high_out[1] = k - 1
        ELSE IsFloorOf(high_out[1], price, tick_size)

C1_Witness ==
    /\ high_out = <<1>>
    /\ tick_size = 3
    /\ price = 6

\* C2: tick_index_to_price(low_to_tick_index(p)) is at most p and less than
\* one tick size below p.
C2_LowRoundTrip ==
    back_out # <<>> =>
        /\ back_out[1] <= price
        /\ price - back_out[1] < tick_size

C2_Witness ==
    /\ back_out = <<3>>
    /\ tick_size = 3
    /\ price = 5

(***************************************************************************)
(* Claims about calculate_rotation_factor (SpecRot).                       *)
(***************************************************************************)
Sign(x) == IF x > 0 THEN 1 ELSE IF x < 0 THEN 0 - 1 ELSE 0

RECURSIVE Total(_, _)
\* f[1] + ... + f[n]
Total(f, n) == IF n = 0 THEN 0 ELSE f[n] + Total(f, n - 1)

ExampleRanges ==
    << [letter |-> "A", low |-> 10, high |-> 12],
       [letter |-> "B", low |-> 11, high |-> 13],
       [letter |-> "C", low |-> 9, high |-> 11] >>

\* C6: for n >= 2 ranges the table has, for every consecutive pair, the sign
\* of the change of the high, the sign of the change of the low and their
\* sum, followed by one Sum column holding the sum of each row; the ranges
\* A(10,12), B(11,13), C(9,11) give High [+1,-1], Low [+1,-1], Net [+2,-2]
\* and Sum 0.
C6_RotationTable ==
    (pc = "rot_done" /\ Len(bracket_ranges_df) >= 2) =>
        LET n == Len(bracket_ranges_df)
            t == rf_comparison[1]
            b == bracket_ranges_df
        IN  /\ Len(t.columns) = n /\ Len(t.High) = n
            /\ Len(t.Low) = n /\ Len(t.Net) = n
            /\ \A i \in 1..(n - 1) :
                  /\ t.High[i] = Sign(b[i + 1].high - b[i].high)
                  /\ t.Low[i] = Sign(b[i + 1].low - b[i].low)
                  /\ t.Net[i] = t.High[i] + t.Low[i]
                  /\ t.columns[i] # <<"Sum">>
            /\ t.columns[n] = <<"Sum">>
            /\ t.High[n] = Total(t.High, n - 1)
            /\ t.Low[n] = Total(t.Low, n - 1)
            /\ t.Net[n] = Total(t.Net, n - 1)
            /\ (b = ExampleRanges =>
                  /\ t.High = <<1, 0 - 1, 0>>
                  /\ t.Low = <<1, 0 - 1, 0>>
                  /\ t.Net = <<2, 0 - 2, 0>>)

C6_Witness ==
    /\ pc = "rot_done"
    /\ bracket_ranges_df = ExampleRanges
    /\ rf_comparison[1].Net = <<2, 0 - 2, 0>>

\* C7: every per-pair net score is in {-2,..,2}, and the Sum of the Net row
\* is the Sum of the High row plus the Sum of the Low row.
C7_NetRangeAndSum ==
    (pc = "rot_done" /\ rf_comparison[1] # EmptyTable) =>
        LET t == rf_comparison[1]
            n == Len(t.Net)
        IN  /\ \A i \in 1..(n - 1) : t.Net[i] \in (0 - 2)..2
            /\ t.Net[n] = t.High[n] + t.Low[n]

C7_Witness ==
    /\ pc = "rot_done"
    /\ Len(bracket_ranges_df) = 3
    /\ rf_comparison[1].High = <<1, 1, 2>>
    /\ rf_comparison[1].Low = <<0 - 1, 0, 0 - 1>>
    /\ rf_comparison[1].Net = <<0, 1, 1>>

(***************************************************************************)
(* Claims about build_tpo (Spec, SpecLetters).                             *)
(***************************************************************************)
\* the candles of df that form the bracket of a recorded range row
CandlesOfRow(r) ==
    { i \in DOMAIN df :
        /\ df[i].date = r.date
        /\ df[i].minute \div tpo_minutes = r.timestamp \div tpo_minutes }

LowOfRow(r) == CHOOSE x \in { df[i].low : i \in CandlesOfRow(r) } :
                  \A i \in CandlesOfRow(r) : x <= df[i].low
HighOfRow(r) == CHOOSE x \in { df[i].high : i \in CandlesOfRow(r) } :
                   \A i \in CandlesOfRow(r) : x >= df[i].high

\* floor(x / tick_size) of a price x >= 0
FloorTick(x) == CHOOSE f \in 0..x : IsFloorOf(f, x, tick_size)

\* the low and the unclamped high tick index of a bracket, from its candles
LowTickOfRow(r) == LET lo == LowOfRow(r) IN FloorTick(lo)
RawHighTickOfRow(r) ==
    LET hi == HighOfRow(r)
        f == FloorTick(hi)
    IN  IF f * tick_size = hi THEN f - 1 ELSE f

\* the blocks tagged with the date and the letter of a range row
BlocksOfRow(r) ==
    { i \in DOMAIN tpo_records :
        tpo_records[i].date = r.date /\ tpo_records[i].letter = r.letter }

LastRow == bracket_ranges_records[Len(bracket_ranges_records)]

\* C3: when the computed high tick index of a bracket is below its low tick
\* index it is set to the low tick index, so high_idx >= low_idx after every
\* bracket and every bracket covers at least one tick.
C3_ClampCoversOneTick ==
    /\ (pc = "group_loop" /\ group_pos >= 1) =>
          LET raw_high == RawHighTickOfRow(LastRow)
          IN  /\ low_idx = LowTickOfRow(LastRow)
              /\ raw_high < low_idx => high_idx = low_idx
              /\ raw_high >= low_idx => high_idx = raw_high
              /\ high_idx >= low_idx
    /\ \A b \in DOMAIN bracket_ranges_records :
          /\ bracket_ranges_records[b].high >= bracket_ranges_records[b].low
          /\ BlocksOfRow(bracket_ranges_records[b]) # {}

\* a bracket of one price on a tick boundary has just been clamped
C3_Witness ==
    /\ pc = "group_loop"
    /\ group_pos = 2
    /\ tick_size = 2
    /\ LowOfRow(LastRow) = 102
    /\ RawHighTickOfRow(LastRow) = 50
    /\ low_idx = 51
    /\ high_idx = 51

\* C4: every bracket has exactly one block for each tick index of its
\* quantized range [low_tick, high_tick] and none outside it, tagged with the
\* letter of the bracket and the date of the session; there are no other
\* blocks.
C4_OneBlockPerTick ==
    /\ \A b \in DOMAIN bracket_ranges_records :
          LET r == bracket_ranges_records[b]
              low_tick == LowTickOfRow(r)
              raw_high == RawHighTickOfRow(r)
              high_tick == IF raw_high < low_tick THEN low_tick ELSE raw_high
          IN  /\ \A t \in low_tick..high_tick :
                    Cardinality({ i \in BlocksOfRow(r) :
                                    tpo_records[i].price = t * tick_size }) = 1
              /\ Cardinality(BlocksOfRow(r)) = high_tick - low_tick + 1
    /\ \A i \in DOMAIN tpo_records :
          \E b \in DOMAIN bracket_ranges_records :
              i \in BlocksOfRow(bracket_ranges_records[b])

\* the second day's bracket B covers the three ticks 100, 101, 102
C4_Witness ==
    /\ pc = "build_done"
    /\ tick_size = 1
    /\ \E b \in DOMAIN bracket_ranges_records :
          LET r == bracket_ranges_records[b]
          IN  /\ r.date = 2 /\ r.letter = "B"
              /\ LowOfRow(r) = 100 /\ HighOfRow(r) = 103
              /\ { tpo_records[i].price : i \in BlocksOfRow(r) } = {100, 101, 102}

\* the alphabet of the claim: A-Z followed by a-z
UpperThenLower ==
    << "A", "B", "C", "D", "E", "F", "G", "H", "I", "J", "K", "L", "M",
       "N", "O", "P", "Q", "R", "S", "T", "U", "V", "W", "X", "Y", "Z" >> \o
    << "a", "b", "c", "d", "e", "f", "g", "h", "i", "j", "k", "l", "m",
       "n", "o", "p", "q", "r", "s", "t", "u", "v", "w", "x", "y", "z" >>

\* the position of range row b among the rows of its session, from 1
RankInSession(b) ==
    Cardinality({ c \in 1..b :
                    bracket_ranges_records[c].date = bracket_ranges_records[b].date })

\* C5: in every session the brackets are lettered in ascending time order
\* from 'A' on: the n-th bracket has symbol number (n - 1) mod 52 of
\* A-Z a-z, so the 53rd bracket has the letter of the 1st.
C5_LetterCycle ==
    \A b \in DOMAIN bracket_ranges_records :
        LET r == bracket_ranges_records[b]
            n == RankInSession(b)
        IN  /\ r.letter = UpperThenLower[((n - 1) % 52) + 1]
            /\ n >= 2 =>
                  /\ bracket_ranges_records[b - 1].date = r.date
                  /\ bracket_ranges_records[b - 1].timestamp < r.timestamp
            /\ n = 53 => r.letter = bracket_ranges_records[b - 52].letter

\* a day of 53 brackets, the 53rd lettered A, and the next day started at A
C5_Witness ==
    /\ pc = "build_done"
    /\ Len(bracket_ranges_records) = 55
    /\ bracket_ranges_records[52].letter = "z"
    /\ bracket_ranges_records[53].date = 1
    /\ bracket_ranges_records[53].letter = "A"
    /\ bracket_ranges_records[54].date = 2
    /\ bracket_ranges_records[54].letter = "A"
    /\ bracket_ranges_records[55].letter = "B"

\* the number of blocks of a session at a price
CountAt(date, p) ==
    Cardinality({ i \in DOMAIN tpo_records :
                    tpo_records[i].date = date /\ tpo_records[i].price = p })

SessionPrices(date) ==
    { tpo_records[i].price : i \in { k \in DOMAIN tpo_records : tpo_records[k].date = date } }

\* p has the maximal count of the session and is the lowest such price
IsLowestMaximum(date, p) ==
    /\ p \in SessionPrices(date)
    /\ \A q \in SessionPrices(date) :
          /\ CountAt(date, q) <= CountAt(date, p)
          /\ CountAt(date, q) = CountAt(date, p) => p <= q

\* the price at which calculate_value_area starts for the blocks of a session
AnchorOf(date) ==
    LET st == VAEnterState(session_tpos_of(tpo_records, date))
    IN  st.price_counts[st.poc_idx + 1].price

\* C8: the POC of a session, in its summary row and as the start of
\* calculate_value_area, is the price of the maximal block count, the lowest
\* one when several prices share it; counts {100: 3, 101: 3, 102: 1} give 100.
C8_PocLowestMaximum ==
    \A k \in DOMAIN summary_records :
        LET row == summary_records[k]
        IN  /\ IsLowestMaximum(row.date, row.poc)
            /\ IsLowestMaximum(row.date, AnchorOf(row.date))
            /\ ( /\ SessionPrices(row.date) = {100, 101, 102}
                 /\ CountAt(row.date, 100) = 3
                 /\ CountAt(row.date, 101) = 3
                 /\ CountAt(row.date, 102) = 1 ) => row.poc = 100

C8_Witness ==
    /\ pc = "build_done"
    /\ SessionPrices(1) = {100, 101, 102}
    /\ CountAt(1, 100) = 3
    /\ CountAt(1, 101) = 3
    /\ CountAt(1, 102) = 1
    /\ summary_records[1].poc = 100
    /\ AnchorOf(1) = 100

(***************************************************************************)
(* Claims about calculate_value_area (SpecVA).                             *)
(***************************************************************************)
\* the blocks of the argument whose price lies in the returned window
BlocksInWindow ==
    { i \in DOMAIN session_tpos :
        /\ va_ret[1].low[1] <= session_tpos[i].price
        /\ session_tpos[i].price <= va_ret[1].high[1] }

\* the returned window holds every price of the argument
WindowSpansAll == Cardinality(BlocksInWindow) = Len(session_tpos)

\* C9: on return from a non-empty session the blocks inside the window are
\* at least 0.70 x the blocks of the session, unless the window spans every
\* price level.
C9_ValueAreaContainment ==
    (pc = "va_done" /\ session_tpos # <<>>) =>
        \/ 10 * Cardinality(BlocksInWindow) >= 7 * Len(session_tpos)
        \/ WindowSpansAll

\* C10: an iteration with an untaken level on both sides adds the one with
\* the larger count, the higher one on equal counts; with an untaken level
\* on one side only it adds that one.
C10_ExpansionChoice ==
    [][ (pc = "va_loop" /\ pc' = "va_loop") =>
          LET c == va.price_counts
              hasUp == va.upper_idx + 1 < Len(c)
              hasDown == va.lower_idx >= 1
              upC == c[va.upper_idx + 2].count
              downC == c[va.lower_idx].count
              AddedUp == /\ va'.upper_idx = va.upper_idx + 1
                         /\ va'.lower_idx = va.lower_idx
                         /\ va'.va_tpos = va.va_tpos + upC
              AddedDown == /\ va'.lower_idx = va.lower_idx - 1
                           /\ va'.upper_idx = va.upper_idx
                           /\ va'.va_tpos = va.va_tpos + downC
          IN  /\ (hasUp /\ hasDown /\ upC > downC) => AddedUp
              /\ (hasUp /\ hasDown /\ upC < downC) => AddedDown
              /\ (hasUp /\ hasDown /\ upC = downC) => AddedUp
              /\ (hasUp /\ ~hasDown) => AddedUp
              /\ (hasDown /\ ~hasUp) => AddedDown ]_vars

\* after one iteration from the POC with equal counts above and below it
C10_Witness ==
    /\ pc = "va_loop"
    /\ va.poc_idx = 1
    /\ Len(va.price_counts) = 3
    /\ va.price_counts[1].count = va.price_counts[3].count
    /\ va.upper_idx = 2
    /\ va.lower_idx = 1

\* the prices of the argument, and those strictly inside the returned window
LevelPrices == { session_tpos[i].price : i \in DOMAIN session_tpos }
TicksInWindow ==
    { p \in va_ret[1].low[1]..va_ret[1].high[1] : p % tick_size = 0 }

\* C11 as stated: on return every tick index from the tick of value_area_low
\* to the tick of value_area_high is a level whose blocks were accumulated.
C11_TickContiguity ==
    (pc = "va_done" /\ session_tpos # <<>>) =>
        \A p \in TicksInWindow : p \in LevelPrices

\* C11 as amended: the window is contiguous in the index of price_counts, the
\* occupied levels: it runs from row lower_idx to row upper_idx around the
\* POC, its bounds are the prices of these two rows, and the accumulated
\* volume is the number of blocks priced within the bounds, so that no
\* occupied level between the bounds is left out.
C11_LevelContiguity ==
    (pc = "va_done" /\ session_tpos # <<>>) =>
        /\ va.lower_idx <= va.poc_idx
        /\ va.poc_idx <= va.upper_idx
        /\ va_ret[1].low = <<va.price_counts[va.lower_idx + 1].price>>
        /\ va_ret[1].high = <<va.price_counts[va.upper_idx + 1].price>>
        /\ va.va_tpos = Cardinality(BlocksInWindow)
        /\ \A k \in (va.lower_idx + 1)..(va.upper_idx + 1) :
              va.price_counts[k].price \in LevelPrices

\* a window over the levels 100 and 102 of a session with no block at 101
C11_Witness ==
    /\ pc = "va_done"
    /\ LevelPrices = {100, 102, 103}
    /\ va_ret[1].low = <<100>>
    /\ va_ret[1].high = <<102>>
    /\ va.va_tpos = 2

(***************************************************************************)
(* Claims about the POC movement trackers (SpecPoc).                       *)
(***************************************************************************)
\* the POCs of the daily records, in order
PocSeries == [k \in DOMAIN daily_pocs |-> daily_pocs[k].poc]

ExampleSeries == <<100, 102, 101, 101, 105>>

\* C12: for two or more daily POC records every consecutive pair is scored
\* +1 when the POC rose, -1 when it fell and 0 when it stayed, the bias is
\* the sum of the scores and the label is bullish, bearish or neutral by the
\* sign of the sum, in track_poc_movement_web and in
\* track_poc_movement_multiday (whose label run_poc_analysis prints); the
\* series 100, 102, 101, 101, 105 gives +1, -1, 0, +1, bias +1, bullish.
C12_PocMovementScores ==
    (pc = "poc_done" /\ poc_mode \in {"web", "multiday"} /\ Len(daily_pocs) >= 2) =>
        LET n == Len(daily_pocs)
            expected == [k \in 1..(n - 1) |-> Sign(PocSeries[k + 1] - PocSeries[k])]
            sum == Total(expected, n - 1)
        IN  /\ poc_mode = "web" =>
                  /\ movements = expected
                  /\ poc_ret[1].bias_score = sum
                  /\ poc_ret[1].bias =
                        (IF sum > 0 THEN "BULLISH"
                         ELSE IF sum < 0 THEN "BEARISH" ELSE "NEUTRAL")
                  /\ PocSeries = ExampleSeries =>
                        /\ movements = <<1, 0 - 1, 0, 1>>
                        /\ poc_ret[1].bias_score = 1
                        /\ poc_ret[1].bias = "BULLISH"
            /\ poc_mode = "multiday" =>
                  /\ poc_ret[1] # None
                  /\ [k \in DOMAIN movements |-> movements[k].score] = expected
                  /\ poc_ret[1][1].total_score = sum
                  /\ poc_report # <<>> =>
                        poc_report[1] =
                          (IF sum > 0 THEN "Bullish POC movement"
                           ELSE IF sum < 0 THEN "Bearish POC movement"
                           ELSE "Neutral POC movement")
                  /\ PocSeries = ExampleSeries =>
                        /\ [k \in DOMAIN movements |-> movements[k].score]
                              = <<1, 0 - 1, 0, 1>>
                        /\ poc_ret[1][1].total_score = 1

\* the web tracker has returned for the series of the example
C12_Witness ==
    /\ pc = "poc_done"
    /\ poc_mode = "web"
    /\ PocSeries = ExampleSeries
    /\ movements = <<1, 0 - 1, 0, 1>>
    /\ poc_ret[1].bias = "BULLISH"

\* C13: with fewer than two POC records the tracker reports insufficient
\* data: a result with bias score 0 and no per-step scores, and no bullish,
\* bearish or neutral label.
C13_InsufficientData ==
    (pc = "poc_done" /\ poc_mode \in {"web", "multiday"} /\ Len(daily_pocs) < 2) =>
        /\ poc_mode = "web" =>
              /\ poc_ret[1].bias = "INSUFFICIENT DATA"
              /\ poc_ret[1].bias_score = 0
              /\ movements = <<>>
        /\ poc_mode = "multiday" =>
              /\ poc_ret[1] # None
              /\ poc_ret[1][1].total_score = 0
              /\ poc_ret[1][1].movements = <<>>

\* the candle covers the tick level at price p, a multiple of the tick
\* size: the level of the candle's low (the one with p <= low < p + tick)
\* or a level above it that lies strictly below the candle's high
Covers(c, p) ==
    /\ p % tick_size = 0
    /\ c.low < p + tick_size
    /\ (p <= c.low \/ p < c.high)

\* the number of the candles cs covering price p, one bracket per candle
CoverCount(cs, p) == Cardinality({ i \in DOMAIN cs : Covers(cs[i], p) })

\* the prices some candle of the model can cover
CoverPrices == 98..104

\* the POC of the brackets cs: the lowest price of the maximal count
PocOfBrackets(cs) ==
    CHOOSE p \in CoverPrices :
        /\ CoverCount(cs, p) >= 1
        /\ \A q \in CoverPrices :
              /\ CoverCount(cs, q) <= CoverCount(cs, p)
              /\ CoverCount(cs, q) = CoverCount(cs, p) => p <= q

\* the candles of today and of yesterday in the fetched data, in time order
TodayCandles == SelectSeq(df, LAMBDA c : c.date = today_date)
YesterdayCandles == SelectSeq(df, LAMBDA c : c.date = today_date - 1)

\* C14: in the tracker of today, step k records the POC over all of today's
\* brackets 1..k; step 1 is scored against the final POC of yesterday and
\* step k > 1 against the POC of step k - 1; the total score is the sum of
\* the step scores.
C14_IncrementalPoc ==
    (poc_mode = "today" /\ pc \in {"poc_moves", "poc_done"} /\ prev_poc # <<>>) =>
        /\ Len(movements) = poc_pos
        /\ \A k \in DOMAIN movements :
              LET m == movements[k]
              IN  /\ m.poc = PocOfBrackets(SubSeq(TodayCandles, 1, k))
                  /\ m.prev_poc = (IF k = 1 THEN PocOfBrackets(YesterdayCandles)
                                   ELSE movements[k - 1].poc)
                  /\ m.score = Sign(m.poc - m.prev_poc)
        /\ pc = "poc_done" =>
              /\ Len(movements) = Len(TodayCandles)
              /\ poc_ret[1][1].total_score =
                    Total([k \in DOMAIN movements |-> movements[k].score], Len(movements))

\* three brackets today: the POC rose against yesterday's, fell, then stayed
\* although the third bracket alone has another POC
C14_Witness ==
    /\ poc_mode = "today"
    /\ pc = "poc_done"
    /\ Len(movements) = 3
    /\ movements[1].score = 1
    /\ movements[2].score = 0 - 1
    /\ movements[3].score = 0
    /\ movements[3].poc # PocOfBrackets(SubSeq(TodayCandles, 3, 3))
    /\ poc_ret[1][1].total_score = 0

(***************************************************************************)
(* Claims about the rotation of sessions in the analyses (SpecControl).    *)
(***************************************************************************)
\* the number of brackets of a date: the time windows that hold a candle
BracketCount(date) ==
    Cardinality({ df[i].minute \div tpo_minutes :
                    i \in { k \in DOMAIN df : df[k].date = date } })

\* C15: calculate_rotation_factor gives the empty table for fewer than two
\* bracket ranges, and for a session with fewer than two brackets the
\* callers take it as insufficient data: analyze_market_control adds no
\* rotation and does not count the session (it counts every other one),
\* calculate_rotation_for_day reports rotation 0 and analyze_tpo_profile
\* keeps no table for it.
C15_InsufficientBrackets ==
    [][ (pc = "mc_dates" /\ pc' = "mc_dates") =>
          LET date == profile_wide.columns[date_pos + 1]
              ranges == extract_bracket_ranges(profile_wide, date)
              kept == all_results_of(profile_wide)
          IN  /\ Len(ranges) = BracketCount(date)
              /\ BracketCount(date) < 2 =>
                    /\ calculate_rotation_factor(ranges) = EmptyTable
                    /\ total_net_rotation' = total_net_rotation
                    /\ dates_analyzed' = dates_analyzed
                    /\ calculate_rotation_for_day(session_tpos_of(tpo_df, date))
                         .total_rotation = 0
                    /\ \A k \in DOMAIN kept : kept[k].date_col # date
              /\ BracketCount(date) >= 2 =>
                    /\ dates_analyzed' = dates_analyzed + 1
                    /\ \E k \in DOMAIN kept : kept[k].date_col = date ]_vars

\* two sessions, the first of one bracket: only the second is counted
C15_Witness ==
    /\ pc = "mc_done"
    /\ Len(profile_wide.columns) = 2
    /\ BracketCount(1) = 1
    /\ BracketCount(2) = 2
    /\ results[1].days_analyzed = 1

\* C16: the control is BUYER for a positive aggregate net rotation, SELLER
\* for a negative one and NEUTRAL for zero; the strength of a non-zero
\* aggregate is Strong exactly when its magnitude exceeds twice the number
\* of sessions analyzed, and Moderate otherwise.
C16_ControlClassification ==
    \A k \in DOMAIN results :
        LET row == results[k]
            total == row.total_net_rotation
            magnitude == IF total < 0 THEN 0 - total ELSE total
        IN  row.control # "ERROR" =>
              /\ row.control = "BUYER" <=> total > 0
              /\ row.control = "SELLER" <=> total < 0
              /\ row.control = "NEUTRAL" <=> total = 0
              /\ row.strength = "Strong" <=>
                    (total # 0 /\ magnitude > 2 * row.days_analyzed)
              /\ row.strength = "Moderate" <=>
                    (total # 0 /\ magnitude <= 2 * row.days_analyzed)

\* one session whose net rotation is just the threshold: Moderate
C16_Witness ==
    /\ pc = "mc_done"
    /\ results[1].control = "SELLER"
    /\ results[1].total_net_rotation = 0 - 2
    /\ results[1].days_analyzed = 1
    /\ results[1].strength = "Moderate"

(***************************************************************************)
(* Claims about sessions and time windows without candles (SpecSparse).    *)
(***************************************************************************)
\* C17: for a session without candles build_tpo emits no block and still a
\* summary row, whose POC and value area are null and whose range and
\* number of periods are zero.
C17_EmptySessionSummary ==
    pc = "build_done" =>
        \A d \in SessionDates :
            session_df_of(df, d) = <<>> =>
                /\ session_tpos_of(build_ret[1].tpo_df, d) = <<>>
                /\ \E k \in DOMAIN build_ret[1].summary_df :
                      LET row == build_ret[1].summary_df[k]
                      IN  /\ row.date = d
                          /\ row.poc = None
                          /\ row.value_area_high = None
                          /\ row.value_area_low = None
                          /\ row.range = 0
                          /\ row.num_periods = 0

\* C20: the bracket_index of every bracket range row is
\* floor(minute_of_day / bracket_length) of the candles of its bracket,
\* also in sessions with time windows without candles.
C20_BracketIndexFloor ==
    \A k \in DOMAIN bracket_ranges_records :
        LET row == bracket_ranges_records[k]
        IN  \A i \in DOMAIN df :
                (df[i].date = row.date
                 /\ assign_tpo_group(df[i].minute, tpo_minutes)
                      = assign_tpo_group(row.timestamp, tpo_minutes))
                => row.bracket_index = df[i].minute \div tpo_minutes

(***************************************************************************)
(* Claims about the configuration of the processor (SpecConfig).           *)
(***************************************************************************)
\* C18: a tick size or a bracket length that is zero or negative is
\* rejected when the processor is configured: the processor is never ready
\* with a default in its place, and no quantizer or grouping call is made
\* with it.
C18_InvalidConfigRejected ==
    LET bad_tick == tick_arg # None /\ tick_arg[1] <= 0
        bad_period == parse_period_to_minutes(tpo_period) <= 0
    IN  (pc \in {"cfg_ready", "cfg_raised", "cfg_rejected"} /\ (bad_tick \/ bad_period)) =>
            /\ pc = "cfg_rejected"
            /\ cfg_out = <<>>

(***************************************************************************)
(* Claims about the daily analysis (SpecDaily).                            *)
(***************************************************************************)
\* C19: when a day analyzed by analyze_daily_metrics has no candles, the
\* timeframe is not reported as an error and the record of that day is
\* the neutral one: rotation 0, value area 0, volume 0.
C19_EmptyDayNeutralRecord ==
    pc = "daily_done" =>
        \A d \in Days :
            day_df[d] = <<>> =>
                /\ "error" \notin DOMAIN daily_result[1]
                /\ daily_result[1][d].rotation = 0
                /\ daily_result[1][d].vah = 0
                /\ daily_result[1][d].val = 0
                /\ daily_result[1][d].va_volume = 0
                /\ daily_result[1][d].total_volume = 0

\* C21: num_periods of every session summary row is the number of brackets
\* (distinct TPO groups) of its session, also when the candle interval is
\* shorter than the TPO period.
C21_NumPeriodsIsBracketCount ==
    \A k \in DOMAIN summary_records :
        LET row == summary_records[k]
        IN  row.num_periods = Len(tpo_groups(session_df_of(df, row.date), tpo_minutes))

(***************************************************************************)
(* Claims about repeated calls of build_tpo (SpecRepeat).                  *)
(***************************************************************************)
\* C22: build_tpo keeps no state between calls: two calls on the same
\* processor with the same candles return the same blocks, bracket ranges
\* and summaries, whatever was processed in between.
C22_SameCandlesSameResult ==
    /\ \A i, k \in DOMAIN call_log :
          call_log[i].df = call_log[k].df => call_log[i].ret = call_log[k].ret
    /\ pc = "build_done" =>
          \A i \in DOMAIN call_log :
              call_log[i].df = df => call_log[i].ret = build_ret[1]

\* the first candles again after a call with other candles
C22_Witness ==
    /\ pc = "build_done"
    /\ Len(call_log) = 2
    /\ call_log[1].df = df
    /\ call_log[2].df # df
    /\ call_log[2].ret.tpo_df # <<>>
    /\ build_ret[1].tpo_df # <<>>

(***************************************************************************)
(* Claims about the aggregation of analyze_market_control (SpecControl).   *)
(***************************************************************************)
\* the net rotation of the rows of one session, summed over consecutive rows
SessionNet(rows) ==
    Total([i \in 1..(Len(rows) - 1) |->
              Sign(rows[i + 1].high - rows[i].high) + Sign(rows[i + 1].low - rows[i].low)],
          Len(rows) - 1)

RECURSIVE SumOver(_, _)
\* the sum of f over the finite set S
SumOver(f, S) ==
    IF S = {} THEN 0
    ELSE LET x == CHOOSE x \in S : TRUE IN f[x] + SumOver(f, S \ {x})

\* C23: the total net rotation of a run is the sum of the Net sums of
\* exactly the sessions that have at least 2 brackets, and Days Analyzed is
\* the number of those sessions.
C23_AggregateOfSessions ==
    pc = "mc_done" =>
        LET ranges == build_tpo(prepare_data(df), tick_size, tpo_period).bracket_ranges_df
            dates == { df[i].date : i \in DOMAIN df }
            counted == { d \in dates : BracketCount(d) >= 2 }
            net == [d \in counted |->
                       SessionNet(SelectSeq(ranges, LAMBDA r : r.date = d))]
            row == results[Len(results)]
        IN  /\ row.total_net_rotation = SumOver(net, counted)
            /\ row.days_analyzed = Cardinality(counted)

\* two sessions of two brackets, one rising and one falling by different
\* amounts, and both are counted
C23_Witness ==
    /\ pc = "mc_done"
    /\ BracketCount(1) = 2
    /\ BracketCount(2) = 2
    /\ date_pos = 2
    /\ results[1].days_analyzed = 2
    /\ results[1].total_net_rotation = 0 - 1

(***************************************************************************)
(* Claims about the paging loop of fetch_binance_klines (SpecFetchLive).   *)
(***************************************************************************)
\* C24: the loop stops at the first failed request without a retry and the
\* candles of the pages before are returned; it also stops on an empty
\* page, on a page shorter than the limit and when the next start time
\* reaches the end time, and goes on only after a full page, with a later
\* start time; so the function returns whatever the responses are.
C24_PagingLoopStops ==
    /\ [][ /\ pc = "fetch_failed" => (pc' = "fetch_convert" /\ all_data' = all_data)
           /\ (pc = "fetch_loop" /\ current_start >= end_time) => pc' = "fetch_convert"
           /\ (pc = "fetch_request" /\ pc' = "fetch_loop") =>
                 /\ Len(all_data') = Len(all_data) + limit
                 /\ current_start' > current_start
           /\ (pc = "fetch_request" /\ Len(all_data') < Len(all_data) + limit) =>
                 pc' \in {"fetch_convert", "fetch_failed"}
           /\ pc = "fetch_convert" =>
                 /\ Len(fetch_ret'[1]) = Len(all_data)
                 /\ \A k \in DOMAIN all_data :
                       \E m \in DOMAIN fetch_ret'[1] : fetch_ret'[1][m] = all_data[k]
       ]_vars
    /\ <>(pc = "fetch_done")

\* a request fails after a full page: the candles of that page are returned
C24_Witness ==
    /\ pc = "fetch_done"
    /\ Len(all_data) = limit
    /\ current_start < end_time
    /\ fetch_ret[1] = all_data

(***************************************************************************)
(* Claims about the clamp and the summary of build_tpo (Spec).             *)
(***************************************************************************)
\* C25: for a bracket whose lowest low is not above its highest high, the
\* computed high index is below the low index only when low and high are
\* one price on a tick boundary; in every other case the computed high
\* index is at least the low index and is kept.
C25_ClampOnlyOnBoundaryPoint ==
    (pc = "group_loop" /\ group_pos >= 1) =>
        LET lo == LowOfRow(LastRow)
            hi == HighOfRow(LastRow)
            computed == high_to_tick_index_exclusive(hi, tick_size)
            point == lo = hi /\ lo % tick_size = 0
        IN  /\ lo <= hi
            /\ computed < low_idx => point
            /\ ~point => (computed >= low_idx /\ high_idx = computed)

\* a bracket of the one price 100 at tick size 1, and the clamp has fired
C25_Witness ==
    /\ pc = "group_loop"
    /\ group_pos = 1
    /\ tick_size = 1
    /\ LowOfRow(LastRow) = 100
    /\ HighOfRow(LastRow) = 100
    /\ high_to_tick_index_exclusive(100, tick_size) < low_idx
    /\ high_idx = low_idx

\* C26: the summary row of a session with blocks has
\* value_area_low <= poc <= value_area_high, and its POC is the price at
\* which calculate_value_area started.
C26_PocInsideValueArea ==
    \A k \in DOMAIN summary_records :
        LET row == summary_records[k]
        IN  session_tpos_of(tpo_records, row.date) # <<>> =>
              /\ row.value_area_low # None
              /\ row.value_area_high # None
              /\ row.value_area_low[1] <= row.poc
              /\ row.poc <= row.value_area_high[1]
              /\ row.poc = AnchorOf(row.date)

\* a session with blocks from 100 to 103 whose POC 102 is not its lowest
\* price, and whose value area is wider than the POC
C26_Witness ==
    /\ pc = "build_done"
    /\ SessionPrices(1) = {100, 101, 102, 103}
    /\ summary_records[1].poc = 102
    /\ AnchorOf(1) = 102
    /\ summary_records[1].value_area_low[1] < summary_records[1].value_area_high[1]

(***************************************************************************)
(* Claims about the two daily POC trackers (SpecPoc).                      *)
(***************************************************************************)
\* the POC of every date that has candles, in date order
DatePocs ==
    LET dates == session_dates(df)
    IN  [k \in DOMAIN dates |->
            calculate_daily_poc(session_df_of(df, dates[k]), tick_size, tpo_period)[1]]

\* the sum of the signs of the changes along a series
SeriesScore(series) ==
    IF Len(series) < 2 THEN 0
    ELSE Total([k \in 1..(Len(series) - 1) |-> Sign(series[k + 1] - series[k])],
               Len(series) - 1)

\* C29: on the same 1h candles track_poc_movement_web and
\* track_poc_movement_multiday build the same series of daily POCs, one
\* record per date that has candles, and report the same aggregate score.
C29_SameSeriesSameScore ==
    (pc = "poc_done" /\ poc_mode \in {"web", "multiday"}) =>
        /\ PocSeries = DatePocs
        /\ poc_mode = "web" => poc_ret[1].bias_score = SeriesScore(DatePocs)
        /\ poc_mode = "multiday" =>
              /\ poc_ret[1] # None
              /\ poc_ret[1][1].total_score = SeriesScore(DatePocs)

(***************************************************************************)
(* Claims about the termination of the value-area loop (SpecVALive).       *)
(***************************************************************************)
\* the number of rows the window spans beyond the POC row
WindowWidth(st) == st.upper_idx - st.lower_idx

\* C30: every iteration of the expansion loop that does not leave the loop
\* moves exactly one boundary by exactly one row and adds that row's count,
\* which is positive; the boundaries stay within the rows 0..levels-1, so
\* the loop runs at most levels-1 times, and a call that has entered the
\* loop leaves it and returns.
C30_ExpansionTerminates ==
    /\ [][ (pc = "va_loop" /\ pc' = "va_loop") =>
             LET c == va.price_counts
                 MovedUp == /\ va'.upper_idx = va.upper_idx + 1
                            /\ va'.lower_idx = va.lower_idx
                            /\ c[va'.upper_idx + 1].count > 0
                            /\ va'.va_tpos = va.va_tpos + c[va'.upper_idx + 1].count
                 MovedDown == /\ va'.lower_idx = va.lower_idx - 1
                              /\ va'.upper_idx = va.upper_idx
                              /\ c[va'.lower_idx + 1].count > 0
                              /\ va'.va_tpos = va.va_tpos + c[va'.lower_idx + 1].count
             IN  /\ MovedUp \/ MovedDown
                 /\ WindowWidth(va') = WindowWidth(va) + 1
                 /\ va'.price_counts = c ]_vars
    /\ [](pc = "va_loop" =>
             /\ 0 <= va.lower_idx
             /\ va.lower_idx <= va.poc_idx
             /\ va.poc_idx <= va.upper_idx
             /\ va.upper_idx <= Len(va.price_counts) - 1
             /\ WindowWidth(va) <= Len(va.price_counts) - 1)
    /\ (pc = "va_loop") ~> (pc = "va_done")

\* two iterations done, one boundary moved on each side of the POC
C30_Witness ==
    /\ pc = "va_loop"
    /\ WindowWidth(va) = 2
    /\ va.lower_idx < va.poc_idx
    /\ va.poc_idx < va.upper_idx

(***************************************************************************)
(* Claims about the bracket ranges read back from the profile              *)
(* (SpecLetters).                                                          *)
(***************************************************************************)
\* the (letter, low, high) rows build_tpo recorded for a date, in order
RecordedRanges(date) ==
    LET rows == SelectSeq(bracket_ranges_records, LAMBDA r : r.date = date)
    IN  [k \in DOMAIN rows |->
            [letter |-> rows[k].letter, low |-> rows[k].low, high |-> rows[k].high]]

\* C27: for every session the rows extract_bracket_ranges reads from the
\* pivoted profile are build_tpo's (letter, low, high) rows of the session in
\* the same order, so the rotation table of the profile is the table of
\* build_tpo's rows and has (number of brackets - 1) comparison columns.
C27_ProfileRangesAreBuildRanges ==
    (pc = "build_done") =>
        \A date \in { bracket_ranges_records[i].date : i \in DOMAIN bracket_ranges_records } :
            LET recorded == RecordedRanges(date)
                recovered == extract_bracket_ranges(profile_wide_of(tpo_records), date)
                rf_table == calculate_rotation_factor(recovered)
            IN  /\ recovered = recorded
                /\ rf_table = calculate_rotation_factor(recorded)
                /\ Len(recorded) >= 2 =>
                      Len(rf_table.columns) - 1 = Len(recorded) - 1

(***************************************************************************)
(* Claims about the handler of /api/analyze (SpecWeb).                     *)
(***************************************************************************)
\* the rotation results of the profile built for a symbol
OwnRotation(symbol) ==
    rotation_results_of(profile_wide_of(fetch_and_process_tpo(symbol).tpo_df))

\* C28: the rotation results in the answer of a request are those of the
\* profile built for that request's symbol, whatever requests came before
\* it or run beside it.
C28_RotationOfOwnProfile ==
    \A h \in Handlers :
        (/\ web_req[h].at = "done"
         /\ web_req[h].response[1].success
         /\ "rotation" \in DOMAIN web_req[h].response[1].results.analyses) =>
            web_req[h].response[1].results.analyses["rotation"]
                = OwnRotation(web_req[h].symbol)

====
